---- MODULE Spec2Model ----
(***************************************************************************)
(* Tool-augmented query orchestration of the course-materials chatbot:     *)
(*   backend/search_tools.py  CourseSearchTool, CourseOutlineTool,         *)
(*                            ToolManager                                  *)
(*   backend/ai_generator.py  AIGenerator.generate_response and            *)
(*                            AIGenerator._handle_tool_execution           *)
(* Python values are modelled as follows.  A str is a TLA+ string, built   *)
(* with \o as the f-strings build it.  An Optional value is a sequence of  *)
(* length at most one: <<>> is None (or an absent key), <<x>> is x.  A     *)
(* dict is a function whose DOMAIN is its set of keys; a dict whose order  *)
(* matters (ToolManager.tools) is a sequence of name/tool entries in       *)
(* insertion order.  A call that raises yields a record with raised = TRUE.*)
(***************************************************************************)
EXTENDS Integers, Sequences, FiniteSets, TLC

\* ----------------------------------------------------------------- bounds
\* rows (documents, metadata entries) the index returns for one search
MaxRows == 2
\* content blocks of one model response
MaxBlocks == 2

\* ---------------------------------------------------------- Python values
None == <<>>
Some(x) == <<x>>

\* truthiness of an Optional[str] (None and "" are falsy)
TruthyStr(o) == o # None /\ o[1] # ""
\* truthiness of an Optional[int] (None and 0 are falsy)
TruthyInt(o) == o # None /\ o[1] # 0

\* dict.get(key) of a dict d: None when the key is absent
Get(d, key) == IF key \in DOMAIN d THEN Some(d[key]) ELSE None

\* a call that returns v / a call that raises exception e
Return(v) == [raised |-> FALSE, value |-> v]
Raise(e) == [raised |-> TRUE, value |-> e]

Min(a, b) == IF a < b THEN a ELSE b

\* separator.join(parts) for a list of str
RECURSIVE Join(_, _)
Join(sep, parts) ==
    IF parts = <<>> THEN ""
    ELSE IF Len(parts) = 1 THEN parts[1]
    ELSE parts[1] \o sep \o Join(sep, Tail(parts))

\* all sequences over S of length lo..hi
SeqsOf(S, lo, hi) == UNION {[1..n -> S] : n \in lo..hi}

\* ------------------------------------------------- the semantic index
\* The index (vector_store.VectorStore) is a collaborator outside this core.
\* Its catalog is fixed here: course "MCP" has a course link, a link for
\* lesson 1 and none for lesson 2; every other title has no link at all.
StoreLessonLink(course_title, lesson_num) ==
    IF course_title = "MCP" /\ lesson_num = 1
    THEN Some("https://mcp/lesson1") ELSE None

StoreCourseLink(course_title) ==
    IF course_title = "MCP" THEN Some("https://mcp") ELSE None

\* SearchResults.is_empty(): no documents
IsEmpty(results) == Len(results.documents) = 0

\* chunk metadata dicts the index can hold
Metas ==
    { [course_title |-> "MCP", lesson_number |-> 1],
      [course_title |-> "MCP", lesson_number |-> 2],
      [course_title |-> "MCP"],
      << >> }

\* the chunk texts, one per position of a result list
DocAt(i) == "chunk" \o ToString(i)

\* A SearchResults value with rows: parallel documents and metadata lists.
RowResults(metas) ==
    [raises |-> FALSE,
     documents |-> [i \in 1..Len(metas) |-> DocAt(i)],
     metadata |-> metas,
     error |-> None]

\* SearchResults.empty(error_msg): no rows and the error text
ErrorResults(msg) ==
    [raises |-> FALSE, documents |-> <<>>, metadata |-> <<>>, error |-> Some(msg)]

\* the index is unreachable: store.search raises
RaisingSearch ==
    [raises |-> TRUE, documents |-> <<>>, metadata |-> <<>>, error |-> None]

\* results whose two lists differ in length by one: a document without
\* metadata, or metadata without its document
UnevenResults ==
    LET lesson1 == [course_title |-> "MCP", lesson_number |-> 1]
        same(n) == [i \in 1..n |-> lesson1]
    IN  {[RowResults(same(n)) EXCEPT !.documents = Append(@, "extra")] :
             n \in 0..(MaxRows - 1)}
        \cup {[RowResults(same(n)) EXCEPT !.documents = SubSeq(@, 1, n - 1)] :
                  n \in 1..MaxRows}

\* every outcome of one store.search call over the metadata dicts metas: rows
\* (zero rows included), uneven results, an error, or a raised fault
SearchOutcomesOver(metas) ==
    {RowResults(m) : m \in SeqsOf(metas, 0, MaxRows)}
    \cup UnevenResults
    \cup {ErrorResults("No course found matching 'X'"), RaisingSearch}

SearchOutcomes == SearchOutcomesOver(Metas)

\* -------------------------------------------------------- CourseSearchTool
SearchToolName == "search_course_content"
OutlineToolName == "get_course_outline"

\* zip(results.documents, results.metadata): the common prefix, as rows
Zip(documents, metadata) ==
    [i \in 1..Min(Len(documents), Len(metadata)) |->
        [doc |-> documents[i], meta |-> metadata[i]]]

\* meta.get("course_title", "unknown")
CourseTitle(meta) ==
    IF "course_title" \in DOMAIN meta THEN meta.course_title ELSE "unknown"

\* the context header of one row
Header(meta) ==
    LET lesson_num == Get(meta, "lesson_number")
    IN  "[" \o CourseTitle(meta)
            \o (IF lesson_num # None
                THEN " - Lesson " \o ToString(lesson_num[1]) ELSE "")
            \o "]"

\* faulty variant: the course link is used for every row with a title
LessonLinkOfCourse(meta) ==
    IF CourseTitle(meta) # "unknown"
    THEN StoreCourseLink(CourseTitle(meta))
    ELSE None

\* faulty variant: a lesson without link gets the link of its course
LessonLinkFallsBack(meta) ==
    LET lesson_num == Get(meta, "lesson_number")
    IN  IF lesson_num # None /\ StoreLessonLink(CourseTitle(meta), lesson_num[1]) # None
        THEN StoreLessonLink(CourseTitle(meta), lesson_num[1])
        ELSE IF CourseTitle(meta) # "unknown"
        THEN StoreCourseLink(CourseTitle(meta))
        ELSE None

\* the lesson link of one row
LessonLink(meta) ==
    LET lesson_num == Get(meta, "lesson_number")
    IN  IF lesson_num # None
        THEN StoreLessonLink(CourseTitle(meta), lesson_num[1])
        ELSE IF CourseTitle(meta) # "unknown"
        THEN StoreCourseLink(CourseTitle(meta))
        ELSE None

\* the call _format_results makes to the index for the link of one row:
\* none for a row without lesson number and without course title
LinkLookup(meta) ==
    LET lesson_num == Get(meta, "lesson_number")
    IN  IF lesson_num # None
        THEN << [call |-> "get_lesson_link", course_title |-> CourseTitle(meta),
                 lesson_num |-> lesson_num[1]] >>
        ELSE IF CourseTitle(meta) # "unknown"
        THEN << [call |-> "get_course_link", course_title |-> CourseTitle(meta)] >>
        ELSE << >>

\* the calls _format_results makes to the index for links, in row order
RECURSIVE LookupsOf(_)
LookupsOf(rows) ==
    IF rows = <<>> THEN <<>>
    ELSE LinkLookup(rows[1].meta) \o LookupsOf(Tail(rows))

Lookups(results) == LookupsOf(Zip(results.documents, results.metadata))

\* faulty variant: the citation's text is the course title alone
SourceInfoTitleOnly(meta) ==
    [text |-> CourseTitle(meta), link |-> LessonLink(meta)]

\* the source entry (citation) of one row
SourceInfo(meta) ==
    LET lesson_num == Get(meta, "lesson_number")
    IN  [text |-> CourseTitle(meta)
                    \o (IF lesson_num # None
                        THEN " - Lesson " \o ToString(lesson_num[1]) ELSE ""),
         link |-> LessonLink(meta)]

\* the sources list _format_results builds
Sources(results) ==
    LET rows == Zip(results.documents, results.metadata)
    IN  [i \in 1..Len(rows) |-> SourceInfo(rows[i].meta)]

\* the formatted blocks _format_results builds
Formatted(results) ==
    LET rows == Zip(results.documents, results.metadata)
    IN  [i \in 1..Len(rows) |-> Header(rows[i].meta) \o "\n" \o rows[i].doc]

\* faulty variant: the blocks are joined by a single newline
FormatResultsNoBlankLine(results) ==
    [text |-> Join("\n", Formatted(results)), last_sources |-> Sources(results),
     lookups |-> Lookups(results)]

\* CourseSearchTool._format_results: the text returned and the value
\* stored in self.last_sources
FormatResults(results) ==
    [text |-> Join("\n\n", Formatted(results)), last_sources |-> Sources(results),
     lookups |-> Lookups(results)]

\* binding **kwargs to execute(query, course_name=None, lesson_number=None)
BindsSearch(kwargs) ==
    /\ "query" \in DOMAIN kwargs
    /\ DOMAIN kwargs \subseteq {"query", "course_name", "lesson_number"}

\* the message for a search without rows
NoContentMessage(course_name, lesson_number) ==
    "No relevant content found"
        \o (IF TruthyStr(course_name)
            THEN " in course '" \o course_name[1] \o "'" ELSE "")
        \o (IF TruthyInt(lesson_number)
            THEN " in lesson " \o ToString(lesson_number[1]) ELSE "")
        \o "."

\* faulty variant: a fault of the index is caught and returned as text
SearchExecuteCatches(sources, kwargs, results) ==
    IF ~BindsSearch(kwargs)
    THEN [out |-> Raise("TypeError"), last_sources |-> sources, searches |-> <<>>,
              lookups |-> <<>>]
    ELSE
    LET search == [query |-> kwargs.query,
                   course_name |-> Get(kwargs, "course_name"),
                   lesson_number |-> Get(kwargs, "lesson_number")]
    IN  IF results.raises
        THEN [out |-> Return("Search error: IndexUnreachable"),
              last_sources |-> sources, searches |-> <<search>>,
              lookups |-> <<>>]
        ELSE IF TruthyStr(results.error)
        THEN [out |-> Return(results.error[1]), last_sources |-> sources,
              searches |-> <<search>>,
              lookups |-> <<>>]
        ELSE IF IsEmpty(results)
        THEN [out |-> Return(NoContentMessage(search.course_name,
                                              search.lesson_number)),
              last_sources |-> sources, searches |-> <<search>>,
              lookups |-> <<>>]
        ELSE [out |-> Return(FormatResults(results).text),
              last_sources |-> FormatResults(results).last_sources,
              searches |-> <<search>>,
              lookups |-> FormatResults(results).lookups]

\* faulty variant: the test for no rows comes before the test for an error
SearchExecuteEmptyFirst(sources, kwargs, results) ==
    IF ~BindsSearch(kwargs)
    THEN [out |-> Raise("TypeError"), last_sources |-> sources, searches |-> <<>>,
              lookups |-> <<>>]
    ELSE
    LET search == [query |-> kwargs.query,
                   course_name |-> Get(kwargs, "course_name"),
                   lesson_number |-> Get(kwargs, "lesson_number")]
    IN  IF results.raises
        THEN [out |-> Raise("IndexUnreachable"), last_sources |-> sources,
              searches |-> <<search>>,
              lookups |-> <<>>]
        ELSE IF IsEmpty(results)
        THEN [out |-> Return(NoContentMessage(search.course_name,
                                              search.lesson_number)),
              last_sources |-> sources, searches |-> <<search>>,
              lookups |-> <<>>]
        ELSE IF TruthyStr(results.error)
        THEN [out |-> Return(results.error[1]), last_sources |-> sources,
              searches |-> <<search>>,
              lookups |-> <<>>]
        ELSE [out |-> Return(FormatResults(results).text),
              last_sources |-> FormatResults(results).last_sources,
              searches |-> <<search>>,
              lookups |-> FormatResults(results).lookups]

\* faulty variant: a search without rows is issued again without the lesson
\* filter
SearchExecuteLoosens(sources, kwargs, results) ==
    IF ~BindsSearch(kwargs)
    THEN [out |-> Raise("TypeError"), last_sources |-> sources, searches |-> <<>>,
              lookups |-> <<>>]
    ELSE
    LET search == [query |-> kwargs.query,
                   course_name |-> Get(kwargs, "course_name"),
                   lesson_number |-> Get(kwargs, "lesson_number")]
    IN  IF results.raises
        THEN [out |-> Raise("IndexUnreachable"), last_sources |-> sources,
              searches |-> <<search>>,
              lookups |-> <<>>]
        ELSE IF TruthyStr(results.error)
        THEN [out |-> Return(results.error[1]), last_sources |-> sources,
              searches |-> <<search>>,
              lookups |-> <<>>]
        ELSE IF IsEmpty(results)
        THEN [out |-> Return(NoContentMessage(search.course_name,
                                              search.lesson_number)),
              last_sources |-> sources,
              searches |-> <<search, [search EXCEPT !.lesson_number = None]>>,
              lookups |-> <<>>]
        ELSE [out |-> Return(FormatResults(results).text),
              last_sources |-> FormatResults(results).last_sources,
              searches |-> <<search>>,
              lookups |-> FormatResults(results).lookups]

\* faulty variant: the citations of a search are added to those the
\* instance holds
SearchExecuteAccumulates(sources, kwargs, results) ==
    IF ~BindsSearch(kwargs)
    THEN [out |-> Raise("TypeError"), last_sources |-> sources, searches |-> <<>>,
              lookups |-> <<>>]
    ELSE
    LET search == [query |-> kwargs.query,
                   course_name |-> Get(kwargs, "course_name"),
                   lesson_number |-> Get(kwargs, "lesson_number")]
    IN  IF results.raises
        THEN [out |-> Raise("IndexUnreachable"), last_sources |-> sources,
              searches |-> <<search>>,
              lookups |-> <<>>]
        ELSE IF TruthyStr(results.error)
        THEN [out |-> Return(results.error[1]), last_sources |-> sources,
              searches |-> <<search>>,
              lookups |-> <<>>]
        ELSE IF IsEmpty(results)
        THEN [out |-> Return(NoContentMessage(search.course_name,
                                              search.lesson_number)),
              last_sources |-> sources, searches |-> <<search>>,
              lookups |-> <<>>]
        ELSE [out |-> Return(FormatResults(results).text),
              last_sources |-> sources \o FormatResults(results).last_sources,
              searches |-> <<search>>,
              lookups |-> FormatResults(results).lookups]

\* CourseSearchTool.execute(**kwargs) on an instance whose last_sources is
\* sources, the index answering results: the outcome of the call, the new
\* last_sources and the store.search calls made
SearchExecute(sources, kwargs, results) ==
    IF ~BindsSearch(kwargs)
    THEN [out |-> Raise("TypeError"), last_sources |-> sources, searches |-> <<>>,
              lookups |-> <<>>]
    ELSE
    LET search == [query |-> kwargs.query,
                   course_name |-> Get(kwargs, "course_name"),
                   lesson_number |-> Get(kwargs, "lesson_number")]
    IN  IF results.raises
        THEN [out |-> Raise("IndexUnreachable"), last_sources |-> sources,
              searches |-> <<search>>,
              lookups |-> <<>>]
        ELSE IF TruthyStr(results.error)
        THEN [out |-> Return(results.error[1]), last_sources |-> sources,
              searches |-> <<search>>,
              lookups |-> <<>>]
        ELSE IF IsEmpty(results)
        THEN [out |-> Return(NoContentMessage(search.course_name,
                                              search.lesson_number)),
              last_sources |-> sources, searches |-> <<search>>,
              lookups |-> <<>>]
        ELSE [out |-> Return(FormatResults(results).text),
              last_sources |-> FormatResults(results).last_sources,
              searches |-> <<search>>,
              lookups |-> FormatResults(results).lookups]

\* ------------------------------------------------------- CourseOutlineTool
\* json.loads of the stored lessons_json values the catalog can hold: a
\* JSON list of lesson objects, other valid JSON (a number, null), text that
\* is not JSON (json.JSONDecodeError) and a value that is not text at all
\* (TypeError).  A stored value and a parsed value are tagged with their
\* Python type.
Text(s) == [type |-> "str", value |-> s]
NotText == [type |-> "list"]

JsonLoadsText(text) ==
    CASE text = "[]" -> Return([type |-> "list", items |-> <<>>])
      [] text = "[{\"lesson_number\": 1, \"lesson_title\": \"Intro\"}, {\"lesson_number\": 2, \"lesson_title\": \"Tools\"}]"
            -> Return([type |-> "list",
                       items |-> << [lesson_number |-> 1, lesson_title |-> "Intro"],
                                    [lesson_number |-> 2, lesson_title |-> "Tools"] >>])
      [] text = "[{\"lesson_title\": \"Untitled\"}]"
            -> Return([type |-> "list", items |-> << [lesson_title |-> "Untitled"] >>])
      [] text = "5" -> Return([type |-> "int", value |-> 5])
      [] text = "null" -> Return([type |-> "NoneType"])
      [] OTHER -> Raise("JSONDecodeError")

JsonLoads(stored) ==
    IF stored.type = "str" THEN JsonLoadsText(stored.value) ELSE Raise("TypeError")

\* truthiness of a parsed JSON value
TruthyJson(v) ==
    CASE v.type = "list" -> v.items # <<>>
      [] v.type = "int" -> v.value # 0
      [] OTHER -> FALSE

\* the fixed texts of the outline (the source's texts are Chinese; they are
\* written here in ASCII, one name per literal of the source)
OutlineTitleLabel == "Course: "
OutlineLinkLabel == "Course link: "
OutlineLessonsLabel == "Lessons:\n"
OutlineNoLessons == "  This course has no lessons yet."
OutlineNoNumber == "none"
OutlineNoTitle == "untitled"
NoCourseLink == "No course link available"

\* faulty variant: the line shows the title where the number belongs
LessonLineSwapped(lesson) ==
    "  Lesson "
        \o (IF "lesson_title" \in DOMAIN lesson
            THEN lesson.lesson_title ELSE OutlineNoTitle)
        \o ": "
        \o (IF "lesson_number" \in DOMAIN lesson
            THEN ToString(lesson.lesson_number) ELSE OutlineNoNumber)
        \o "\n"

\* one line of the lesson listing
LessonLine(lesson) ==
    "  Lesson "
        \o (IF "lesson_number" \in DOMAIN lesson
            THEN ToString(lesson.lesson_number) ELSE OutlineNoNumber)
        \o ": "
        \o (IF "lesson_title" \in DOMAIN lesson
            THEN lesson.lesson_title ELSE OutlineNoTitle)
        \o "\n"

RECURSIVE Concat(_)
Concat(parts) == IF parts = <<>> THEN "" ELSE parts[1] \o Concat(Tail(parts))

\* answers of store.course_catalog.get(ids=[course_title]): the call raises,
\* or returns nothing, or a result whose "metadatas" is a list of dicts
CatalogRaises == [raises |-> TRUE, result |-> None]
CatalogResult(metadatas) ==
    [raises |-> FALSE, result |-> Some([metadatas |-> metadatas])]
CatalogNone == [raises |-> FALSE, result |-> None]

\* the lessons_json values stored in the catalog
LessonsJsonValues ==
    { Text("[]"),
      Text("[{\"lesson_number\": 1, \"lesson_title\": \"Intro\"}, {\"lesson_number\": 2, \"lesson_title\": \"Tools\"}]"),
      Text("[{\"lesson_title\": \"Untitled\"}]"),
      Text("5"), Text("null"), Text("{not json"), NotText }

\* the metadata dicts of a catalog entry
CatalogMetadatas ==
    { << >>, [course_link |-> "https://mcp"] }
    \cup {[lessons_json |-> j] : j \in LessonsJsonValues}
    \cup {[course_link |-> "https://mcp", lessons_json |-> j] : j \in LessonsJsonValues}

CatalogOutcomes ==
    {CatalogRaises, CatalogNone, CatalogResult(<<>>)}
    \cup {CatalogResult(<<m>>) : m \in CatalogMetadatas}

\* the body of the try block once the metadata is in hand: the outline, or
\* the exception the block raises
OutlineOf(course_title, metadata) ==
    LET course_link == IF "course_link" \in DOMAIN metadata
                       THEN metadata.course_link ELSE NoCourseLink
        lessons_json == IF "lessons_json" \in DOMAIN metadata
                        THEN metadata.lessons_json ELSE Text("[]")
        loaded == JsonLoads(lessons_json)
        head == OutlineTitleLabel \o course_title \o "\n"
                    \o OutlineLinkLabel \o course_link \o "\n\n"
                    \o OutlineLessonsLabel
    IN  IF loaded.raised /\ loaded.value # "JSONDecodeError"
        THEN Raise(loaded.value)
        ELSE
        LET lessons == IF loaded.raised
                       THEN [type |-> "list", items |-> <<>>] ELSE loaded.value
        IN  IF ~TruthyJson(lessons)
            THEN Return(head \o OutlineNoLessons)
            ELSE IF lessons.type # "list"
            THEN Raise("TypeError")
            ELSE Return(head \o Concat([i \in 1..Len(lessons.items) |->
                                            LessonLine(lessons.items[i])]))

\* binding **kwargs to execute(course_title)
BindsOutline(kwargs) == DOMAIN kwargs = {"course_title"}

\* faulty variant: only the catalog lookup is inside the try block
OutlineExecuteNarrow(kwargs, catalog) ==
    IF ~BindsOutline(kwargs) THEN Raise("TypeError")
    ELSE IF catalog.raises
    THEN Return("Error retrieving course outline: " \o "catalog unavailable")
    ELSE IF \/ catalog.result = None
            \/ catalog.result[1].metadatas = <<>>
            \/ DOMAIN catalog.result[1].metadatas[1] = {}
    THEN Return("Course '" \o kwargs.course_title \o "' not found.")
    ELSE OutlineOf(kwargs.course_title, catalog.result[1].metadatas[1])

\* faulty variant: an entry with empty metadata counts as a hit
OutlineExecuteEmptyHit(kwargs, catalog) ==
    IF ~BindsOutline(kwargs) THEN Raise("TypeError")
    ELSE IF catalog.raises
    THEN Return("Error retrieving course outline: " \o "catalog unavailable")
    ELSE IF \/ catalog.result = None
            \/ catalog.result[1].metadatas = <<>>
    THEN Return("Course '" \o kwargs.course_title \o "' not found.")
    ELSE
    LET body == OutlineOf(kwargs.course_title, catalog.result[1].metadatas[1])
    IN  IF body.raised
        THEN Return("Error retrieving course outline: " \o body.value)
        ELSE body

\* CourseOutlineTool.execute(**kwargs), the catalog answering catalog
OutlineExecute(kwargs, catalog) ==
    IF ~BindsOutline(kwargs) THEN Raise("TypeError")
    ELSE IF catalog.raises
    THEN Return("Error retrieving course outline: " \o "catalog unavailable")
    ELSE IF \/ catalog.result = None
            \/ catalog.result[1].metadatas = <<>>
            \/ DOMAIN catalog.result[1].metadatas[1] = {}
    THEN Return("Course '" \o kwargs.course_title \o "' not found.")
    ELSE
    LET body == OutlineOf(kwargs.course_title, catalog.result[1].metadatas[1])
    IN  IF body.raised
        THEN Return("Error retrieving course outline: " \o body.value)
        ELSE body

\* -------------------------------------------------------------- ToolManager
\* The tool instances of the program: two CourseSearchTool objects, one
\* object of a subclass of CourseSearchTool whose definition declares another
\* name ("search3"), and one CourseOutlineTool object.
NotesToolName == "search_course_notes"
SearchTools == {"search1", "search2", "search3"}
OutlineTools == {"outline1"}
\* Tool implementations whose definition has no "name" key, or an empty name
NamelessTools == {"noname1", "emptyname1"}
ToolInstances == SearchTools \cup OutlineTools \cup NamelessTools

\* tool.get_tool_definition()["name"] of a search or outline tool
DefinitionName(tool) ==
    CASE tool = "search3" -> NotesToolName
      [] tool \in SearchTools -> SearchToolName
      [] OTHER -> OutlineToolName

\* tool.get_tool_definition().get("name")
DeclaredName(tool) ==
    CASE tool = "noname1" -> None
      [] tool = "emptyname1" -> Some("")
      [] OTHER -> Some(DefinitionName(tool))

\* hasattr(tool, "last_sources")
HasLastSources(tool) == tool \in SearchTools

VARIABLES
    tools,          \* ToolManager.tools: name/tool entries in insertion order
    last_sources,   \* last_sources of every CourseSearchTool instance
    lastOp,         \* the operation the last step performed, with its result
    sinceReset      \* since the last reset_sources: whether a tool was
                    \* registered, and the index's answer to the latest search

\* the queries in flight: each is one call of generate_response
Procs == {"q1", "q2"}

VARIABLES
    pc,             \* where each generate_response call stands
    tool_manager,   \* whether a tool_manager was passed to the call
    api_params,     \* api_params of generate_response
    response,       \* the first response (initial_response)
    messages,       \* messages of _handle_tool_execution
    tool_results,   \* tool_results of _handle_tool_execution
    block,          \* index of the content block the for loop is at
    calls,          \* the parameters of the model calls the call has issued
    execs,          \* the execute_tool calls the call has made, in order
    final_response, \* the response to the final call (final_response)
    result          \* what generate_response returned or raised (None: nothing yet)

regVars == <<tools, last_sources, lastOp, sinceReset>>
genVars == <<pc, tool_manager, api_params, response, messages, tool_results,
             block, calls, execs, final_response, result>>
vars == <<tools, last_sources, lastOp, sinceReset, pc, tool_manager, api_params,
          response, messages, tool_results, block, calls, execs, final_response,
          result>>


\* A generate_response call is in flight.
InFlight(p) == pc[p] \in {"call1", "tools", "call2"}

\* The frame of a generate_response call that has returned or raised is gone
\* once its caller goes on to the next operation.
FramesDropped ==
    LET gone(p) == pc[p] \in {"done", "raised"}
    IN  IF \A p \in Procs : ~gone(p) THEN UNCHANGED genVars ELSE
        /\ pc' = [p \in Procs |-> IF gone(p) THEN "idle" ELSE pc[p]]
        /\ tool_manager' = [p \in Procs |-> IF gone(p) THEN FALSE ELSE tool_manager[p]]
        /\ api_params' = [p \in Procs |-> IF gone(p) THEN << >> ELSE api_params[p]]
        /\ response' = [p \in Procs |-> IF gone(p) THEN None ELSE response[p]]
        /\ messages' = [p \in Procs |-> IF gone(p) THEN <<>> ELSE messages[p]]
        /\ tool_results' = [p \in Procs |-> IF gone(p) THEN <<>> ELSE tool_results[p]]
        /\ block' = [p \in Procs |-> IF gone(p) THEN 0 ELSE block[p]]
        /\ calls' = [p \in Procs |-> IF gone(p) THEN <<>> ELSE calls[p]]
        /\ execs' = [p \in Procs |-> IF gone(p) THEN <<>> ELSE execs[p]]
        /\ final_response' =
              [p \in Procs |-> IF gone(p) THEN None ELSE final_response[p]]
        /\ result' = [p \in Procs |-> IF gone(p) THEN None ELSE result[p]]

\* faulty variant: every registration adds an entry
DictSetAppends(dict, name, tool) ==
    Append(dict, [name |-> name, tool |-> tool])

\* faulty variant: a name registered again moves to the end
DictSetMoves(dict, name, tool) ==
    Append(SelectSeq(dict, LAMBDA e : e.name # name), [name |-> name, tool |-> tool])

\* self.tools[name] = tool
DictSet(dict, name, tool) ==
    IF \E i \in DOMAIN dict : dict[i].name = name
    THEN [i \in DOMAIN dict |->
            IF dict[i].name = name THEN [name |-> name, tool |-> tool] ELSE dict[i]]
    ELSE Append(dict, [name |-> name, tool |-> tool])

\* name in self.tools
Registered(dict, name) == \E i \in DOMAIN dict : dict[i].name = name

\* self.tools[name]
Lookup(dict, name) == dict[CHOOSE i \in DOMAIN dict : dict[i].name = name].tool

\* ToolManager.get_tool_definitions: the definitions by their names
GetToolDefinitions(dict) == [i \in DOMAIN dict |-> DefinitionName(dict[i].tool)]

\* faulty variant: the scan returns the last non-empty list
RECURSIVE LastSources(_, _)
LastSources(dict, sources) ==
    IF dict = <<>> THEN <<>>
    ELSE IF HasLastSources(dict[Len(dict)].tool) /\ sources[dict[Len(dict)].tool] # <<>>
    THEN sources[dict[Len(dict)].tool]
    ELSE LastSources(SubSeq(dict, 1, Len(dict) - 1), sources)

\* ToolManager.get_last_sources
RECURSIVE FirstSources(_, _)
FirstSources(dict, sources) ==
    IF dict = <<>> THEN <<>>
    ELSE IF HasLastSources(dict[1].tool) /\ sources[dict[1].tool] # <<>>
    THEN sources[dict[1].tool]
    ELSE FirstSources(Tail(dict), sources)

GetLastSources == FirstSources(tools, last_sources)

\* ToolManager.get_last_sources(), called on the registry
GetLastSourcesCall ==
    /\ lastOp' = [op |-> "get_last_sources", sources |-> GetLastSources]
    /\ UNCHANGED <<tools, last_sources, sinceReset>>
    /\ FramesDropped

\* what the index and the catalog answer during one tool execution
Environments == [search : SearchOutcomes, catalog : CatalogOutcomes]

\* faulty variant: a name that is not registered raises KeyError
ExecuteToolInUnguarded(dict, sources, tool_name, kwargs, env) ==
    IF ~Registered(dict, tool_name)
    THEN [out |-> Raise("KeyError"),
          tool |-> None, last_sources |-> sources, searches |-> <<>>,
              lookups |-> <<>>]
    ELSE
    LET tool == Lookup(dict, tool_name)
    IN  IF tool \in SearchTools
        THEN LET r == SearchExecute(sources[tool], kwargs, env.search)
             IN  [out |-> r.out, tool |-> Some(tool),
                  last_sources |-> [sources EXCEPT ![tool] = r.last_sources],
                  searches |-> r.searches,
                  lookups |-> r.lookups]
        ELSE [out |-> OutlineExecute(kwargs, env.catalog), tool |-> Some(tool),
              last_sources |-> sources, searches |-> <<>>,
              lookups |-> <<>>]

\* faulty variant: arguments that do not fit the tool's parameters are
\* answered with a text
ExecuteToolInLenient(dict, sources, tool_name, kwargs, env) ==
    IF ~Registered(dict, tool_name)
    THEN [out |-> Return("Tool '" \o tool_name \o "' not found"),
          tool |-> None, last_sources |-> sources, searches |-> <<>>,
              lookups |-> <<>>]
    ELSE
    LET tool == Lookup(dict, tool_name)
    IN  IF tool \in SearchTools
        THEN LET r == SearchExecute(sources[tool], kwargs, env.search)
             IN  [out |-> IF r.out = Raise("TypeError")
                          THEN Return("Invalid arguments") ELSE r.out,
                  tool |-> Some(tool),
                  last_sources |-> [sources EXCEPT ![tool] = r.last_sources],
                  searches |-> r.searches,
                  lookups |-> r.lookups]
        ELSE [out |-> IF OutlineExecute(kwargs, env.catalog) = Raise("TypeError")
                      THEN Return("Invalid arguments")
                      ELSE OutlineExecute(kwargs, env.catalog),
              tool |-> Some(tool),
              last_sources |-> sources, searches |-> <<>>,
              lookups |-> <<>>]

\* faulty variant: last_sources is one list of the class, shared by all
\* instances
ExecuteToolInShared(dict, sources, tool_name, kwargs, env) ==
    IF ~Registered(dict, tool_name)
    THEN [out |-> Return("Tool '" \o tool_name \o "' not found"),
          tool |-> None, last_sources |-> sources, searches |-> <<>>,
              lookups |-> <<>>]
    ELSE
    LET tool == Lookup(dict, tool_name)
    IN  IF tool \in SearchTools
        THEN LET r == SearchExecute(sources[tool], kwargs, env.search)
             IN  [out |-> r.out, tool |-> Some(tool),
                  last_sources |-> [t \in SearchTools |-> r.last_sources],
                  searches |-> r.searches,
                  lookups |-> r.lookups]
        ELSE [out |-> OutlineExecute(kwargs, env.catalog), tool |-> Some(tool),
              last_sources |-> sources, searches |-> <<>>,
              lookups |-> <<>>]

\* ToolManager.execute_tool(tool_name, **kwargs) in registry dict with the
\* citation state sources, the collaborators answering env: the outcome of
\* the call, the tool that ran and the new citation state
ExecuteToolIn(dict, sources, tool_name, kwargs, env) ==
    IF ~Registered(dict, tool_name)
    THEN [out |-> Return("Tool '" \o tool_name \o "' not found"),
          tool |-> None, last_sources |-> sources, searches |-> <<>>,
              lookups |-> <<>>]
    ELSE
    LET tool == Lookup(dict, tool_name)
    IN  IF tool \in SearchTools
        THEN LET r == SearchExecute(sources[tool], kwargs, env.search)
             IN  [out |-> r.out, tool |-> Some(tool),
                  last_sources |-> [sources EXCEPT ![tool] = r.last_sources],
                  searches |-> r.searches,
                  lookups |-> r.lookups]
        ELSE [out |-> OutlineExecute(kwargs, env.catalog), tool |-> Some(tool),
              last_sources |-> sources, searches |-> <<>>,
              lookups |-> <<>>]

\* an outline lookup ran: store.course_catalog.get was called
LookupRan(kwargs, r) ==
    r.tool # None /\ r.tool[1] \in OutlineTools /\ BindsOutline(kwargs)

\* the record of one execute_tool call kept in lastOp
ExecRecord(tool_name, kwargs, env, r) ==
    [op |-> "execute_tool", name |-> tool_name, kwargs |-> kwargs,
     tool |-> r.tool, out |-> r.out, searches |-> r.searches,
     lookups |-> r.lookups,
     results |-> IF r.searches # <<>> THEN Some(env.search) ELSE None,
     catalog |-> IF LookupRan(kwargs, r) THEN Some(env.catalog) ELSE None]

\* a content search ran: store.search was called
SearchRan(r) == r.searches # <<>>

\* nothing has run since the last reset_sources
Clean == [registered |-> FALSE, search |-> None]

\* sinceReset after an execute_tool call
AfterExecute(since, env, r) ==
    IF SearchRan(r) THEN [since EXCEPT !.search = Some(env.search)] ELSE since

\* faulty variant: only a missing name is refused, an empty one is registered
RegisterToolNoneOnly(tool) ==
    LET tool_name == DeclaredName(tool)
    IN  /\ IF tool_name = None
           THEN /\ lastOp' = [op |-> "register_tool", tool |-> tool,
                              out |-> Raise("ValueError")]
                /\ UNCHANGED <<tools, sinceReset>>
           ELSE /\ tools' = DictSet(tools, tool_name[1], tool)
                /\ lastOp' = [op |-> "register_tool", tool |-> tool,
                              out |-> Return(None)]
                /\ sinceReset' = [sinceReset EXCEPT !.registered = TRUE]
        /\ UNCHANGED last_sources
        /\ FramesDropped

\* ToolManager.register_tool(tool)
RegisterTool(tool) ==
    LET tool_name == DeclaredName(tool)
    IN  /\ IF ~TruthyStr(tool_name)
           THEN /\ lastOp' = [op |-> "register_tool", tool |-> tool,
                              out |-> Raise("ValueError")]
                /\ UNCHANGED <<tools, sinceReset>>
           ELSE /\ tools' = DictSet(tools, tool_name[1], tool)
                /\ lastOp' = [op |-> "register_tool", tool |-> tool,
                              out |-> Return(None)]
                /\ sinceReset' = [sinceReset EXCEPT !.registered = TRUE]
        /\ UNCHANGED last_sources
        /\ FramesDropped

\* ToolManager.execute_tool(tool_name, **kwargs), called on the registry
ExecuteTool(tool_name, kwargs, env) ==
    LET r == ExecuteToolIn(tools, last_sources, tool_name, kwargs, env)
    IN  /\ last_sources' = r.last_sources
        /\ lastOp' = ExecRecord(tool_name, kwargs, env, r)
        /\ sinceReset' = AfterExecute(sinceReset, env, r)
        /\ UNCHANGED tools
        /\ FramesDropped

\* faulty variant: the loop stops after the first registered tool
ResetAllFirstOnly(dict, sources) ==
    [t \in SearchTools |->
        IF dict # <<>> /\ dict[1].tool = t THEN <<>> ELSE sources[t]]

\* faulty variant: the loop clears nothing
ResetAllKeeps(dict, sources) == sources

\* the citation state after the loop of reset_sources over dict
ResetAll(dict, sources) ==
    [t \in SearchTools |->
        IF \E i \in DOMAIN dict : dict[i].tool = t /\ HasLastSources(t)
        THEN <<>> ELSE sources[t]]

\* ToolManager.reset_sources()
ResetSources ==
    /\ last_sources' = ResetAll(tools, last_sources)
    /\ lastOp' = [op |-> "reset_sources"]
    /\ sinceReset' = Clean
    /\ UNCHANGED tools
    /\ FramesDropped

\* -------------------------------------------------------------- AIGenerator
\* AIGenerator.SYSTEM_PROMPT (its text is not modelled)
SYSTEM_PROMPT == "<system prompt>"

\* self.base_params
BaseParams == [model |-> "<model>", temperature |-> 0, max_tokens |-> 800]

\* the content blocks of a model response
TextBlock(text) == [type |-> "text", text |-> text]
ToolUseBlock(id, name, input) ==
    [type |-> "tool_use", id |-> id, name |-> name, input |-> input]

\* str(block) of a block that has no text attribute
StrOfBlock(b) == "ToolUseBlock(id='" \o b.id \o "', name='" \o b.name \o "')"

\* response.content[0].text if hasattr(response.content[0], 'text')
\* else str(response.content[0])
ResponseText(resp) ==
    IF "text" \in DOMAIN resp.content[1]
    THEN resp.content[1].text ELSE StrOfBlock(resp.content[1])

\* system_content of generate_response
SystemContent(conversation_history) ==
    IF TruthyStr(conversation_history)
    THEN SYSTEM_PROMPT \o "\n\nPrevious conversation:\n" \o conversation_history[1]
    ELSE SYSTEM_PROMPT

\* truthiness of the tools argument (None and [] are falsy)
TruthyList(o) == o # None /\ o[1] # <<>>

\* faulty variant: an empty tools list is attached like any other
FirstParamsAnyList(query, conversation_history, tools_arg) ==
    LET base == BaseParams
                  @@ [messages |-> << [role |-> "user", content |-> query] >>,
                      system |-> SystemContent(conversation_history)]
    IN  IF tools_arg # None
        THEN base @@ [tools |-> tools_arg[1], tool_choice |-> [type |-> "auto"]]
        ELSE base

\* api_params of generate_response, as passed to the first model call
FirstParams(query, conversation_history, tools_arg) ==
    LET base == BaseParams
                  @@ [messages |-> << [role |-> "user", content |-> query] >>,
                      system |-> SystemContent(conversation_history)]
    IN  IF TruthyList(tools_arg)
        THEN base @@ [tools |-> tools_arg[1], tool_choice |-> [type |-> "auto"]]
        ELSE base

\* faulty variant: the entry is keyed by the tool's name, not the block's id
ToolResultEntryByName(content_block, tool_result) ==
    [type |-> "tool_result", tool_use_id |-> content_block.name,
     content |-> tool_result]

\* the entry appended to tool_results for one executed block
ToolResultEntry(content_block, tool_result) ==
    [type |-> "tool_result", tool_use_id |-> content_block.id,
     content |-> tool_result]

\* faulty variant: the tool-result message is added even when it is empty
FinalMessagesAlways(msgs, results) ==
    Append(msgs, [role |-> "user", content |-> results])

\* messages once the tool results are added as a single message
FinalMessages(msgs, results) ==
    IF results # <<>>
    THEN Append(msgs, [role |-> "user", content |-> results])
    ELSE msgs

\* faulty variant: the final call carries the fixed instruction text alone
FinalParamsFixedSystem(msgs, base_params) ==
    BaseParams @@ [messages |-> msgs, system |-> SYSTEM_PROMPT]

\* final_params of _handle_tool_execution
FinalParams(msgs, base_params) ==
    BaseParams @@ [messages |-> msgs, system |-> base_params.system]

\* faulty variant: the stop reason is not looked at
NeedsToolExecutionAnyStop(resp, manager) == manager

\* the test that sends generate_response into _handle_tool_execution
\* (hasattr(response, 'stop_reason') holds of every response)
NeedsToolExecution(resp, manager) == resp.stop_reason = "tool_use" /\ manager

\* generate_response(query, conversation_history, tools, tool_manager) up to
\* the first self.client.messages.create(**api_params)
GenerateResponse(p, query, conversation_history, tools_arg, manager) ==
    /\ pc[p] \in {"idle", "done", "raised"}
    /\ pc' = [pc EXCEPT ![p] = "call1"]
    /\ tool_manager' = [tool_manager EXCEPT ![p] = manager]
    /\ api_params' = [api_params EXCEPT
                        ![p] = FirstParams(query, conversation_history, tools_arg)]
    /\ calls' = [calls EXCEPT
                   ![p] = << FirstParams(query, conversation_history, tools_arg) >>]
    /\ response' = [response EXCEPT ![p] = None]
    /\ messages' = [messages EXCEPT ![p] = <<>>]
    /\ tool_results' = [tool_results EXCEPT ![p] = <<>>]
    /\ block' = [block EXCEPT ![p] = 0]
    /\ execs' = [execs EXCEPT ![p] = <<>>]
    /\ final_response' = [final_response EXCEPT ![p] = None]
    /\ result' = [result EXCEPT ![p] = None]
    /\ lastOp' = [op |-> "generate_response", proc |-> p,
                  history |-> conversation_history, tools |-> tools_arg]
    /\ UNCHANGED <<tools, last_sources, sinceReset>>

\* faulty variant: a failed model call is issued once more before the
\* exception leaves generate_response
ModelCallFailsRetries(p) ==
    /\ pc[p] \in {"call1", "call2"}
    /\ pc' = [pc EXCEPT ![p] = "raised"]
    /\ calls' = [calls EXCEPT ![p] = Append(@, @[Len(@)])]
    /\ result' = [result EXCEPT ![p] = Some(Raise("APIError"))]
    /\ lastOp' = [op |-> "generate_response"]
    /\ UNCHANGED <<tools, last_sources, sinceReset, tool_manager, api_params,
                   response, messages, tool_results, block, execs,
                   final_response>>

\* a self.client.messages.create call fails: the exception leaves
\* generate_response
ModelCallFails(p) ==
    /\ pc[p] \in {"call1", "call2"}
    /\ pc' = [pc EXCEPT ![p] = "raised"]
    /\ result' = [result EXCEPT ![p] = Some(Raise("APIError"))]
    /\ lastOp' = [op |-> "generate_response"]
    /\ UNCHANGED <<tools, last_sources, sinceReset, tool_manager, api_params,
                   response, messages, tool_results, block, calls, execs,
                   final_response>>

\* the first model call returns resp: generate_response returns its text,
\* or enters _handle_tool_execution up to the for loop
FirstResponse(p, resp) ==
    /\ pc[p] = "call1"
    /\ response' = [response EXCEPT ![p] = Some(resp)]
    /\ IF NeedsToolExecution(resp, tool_manager[p])
       THEN /\ pc' = [pc EXCEPT ![p] = "tools"]
            /\ messages' = [messages EXCEPT
                  ![p] = Append(api_params[p].messages,
                                [role |-> "assistant", content |-> resp.content])]
            /\ tool_results' = [tool_results EXCEPT ![p] = <<>>]
            /\ block' = [block EXCEPT ![p] = 1]
            /\ UNCHANGED result
       ELSE /\ pc' = [pc EXCEPT ![p] = "done"]
            /\ result' = [result EXCEPT ![p] = Some(Return(ResponseText(resp)))]
            /\ UNCHANGED <<messages, tool_results, block>>
    /\ lastOp' = [op |-> "generate_response"]
    /\ UNCHANGED <<tools, last_sources, sinceReset, tool_manager, api_params,
                   calls, execs, final_response>>

\* one iteration of the for loop over initial_response.content
ExecuteBlock(p, env) ==
    /\ pc[p] = "tools"
    /\ block[p] <= Len(response[p][1].content)
    /\ LET content_block == response[p][1].content[block[p]]
       IN  IF content_block.type = "tool_use"
           THEN LET r == ExecuteToolIn(tools, last_sources, content_block.name,
                                       content_block.input, env)
                    rec == ExecRecord(content_block.name, content_block.input, env, r)
                IN  /\ last_sources' = r.last_sources
                    /\ sinceReset' = AfterExecute(sinceReset, env, r)
                    /\ lastOp' = rec
                    /\ execs' = [execs EXCEPT
                          ![p] = Append(@, rec @@ [id |-> content_block.id,
                                                   calls |-> Len(calls[p])])]
                    /\ IF r.out.raised
                       THEN /\ pc' = [pc EXCEPT ![p] = "raised"]
                            /\ result' = [result EXCEPT ![p] = Some(r.out)]
                            /\ UNCHANGED <<tool_results, block>>
                       ELSE /\ tool_results' = [tool_results EXCEPT
                                  ![p] = Append(@, ToolResultEntry(content_block,
                                                                   r.out.value))]
                            /\ block' = [block EXCEPT ![p] = @ + 1]
                            /\ UNCHANGED <<pc, result>>
           ELSE /\ block' = [block EXCEPT ![p] = @ + 1]
                /\ lastOp' = [op |-> "generate_response"]
                /\ UNCHANGED <<last_sources, sinceReset, execs, tool_results, pc,
                               result>>
    /\ UNCHANGED <<tools, tool_manager, api_params, response, messages, calls,
                   final_response>>

\* _handle_tool_execution after the for loop, up to the final
\* self.client.messages.create(**final_params)
FinalCall(p) ==
    /\ pc[p] = "tools"
    /\ block[p] > Len(response[p][1].content)
    /\ LET msgs == FinalMessages(messages[p], tool_results[p])
       IN  /\ messages' = [messages EXCEPT ![p] = msgs]
           /\ calls' = [calls EXCEPT ![p] = Append(@, FinalParams(msgs, api_params[p]))]
    /\ pc' = [pc EXCEPT ![p] = "call2"]
    /\ lastOp' = [op |-> "generate_response"]
    /\ UNCHANGED <<tools, last_sources, sinceReset, tool_manager, api_params,
                   response, tool_results, block, execs, final_response, result>>

\* faulty variant: a final response that asks for tools starts another round
FinalResponseLoops(p, resp) ==
    /\ pc[p] = "call2"
    /\ final_response' = [final_response EXCEPT ![p] = Some(resp)]
    /\ IF resp.stop_reason = "tool_use"
       THEN /\ pc' = [pc EXCEPT ![p] = "tools"]
            /\ response' = [response EXCEPT ![p] = Some(resp)]
            /\ messages' = [messages EXCEPT
                  ![p] = Append(@, [role |-> "assistant", content |-> resp.content])]
            /\ tool_results' = [tool_results EXCEPT ![p] = <<>>]
            /\ block' = [block EXCEPT ![p] = 1]
            /\ UNCHANGED result
       ELSE /\ pc' = [pc EXCEPT ![p] = "done"]
            /\ result' = [result EXCEPT ![p] = Some(Return(ResponseText(resp)))]
            /\ UNCHANGED <<response, messages, tool_results, block>>
    /\ lastOp' = [op |-> "generate_response"]
    /\ UNCHANGED <<tools, last_sources, sinceReset, tool_manager, api_params,
                   calls, execs>>

\* the final model call returns resp: its text is returned
FinalResponse(p, resp) ==
    /\ pc[p] = "call2"
    /\ pc' = [pc EXCEPT ![p] = "done"]
    /\ final_response' = [final_response EXCEPT ![p] = Some(resp)]
    /\ result' = [result EXCEPT ![p] = Some(Return(ResponseText(resp)))]
    /\ lastOp' = [op |-> "generate_response"]
    /\ UNCHANGED <<tools, last_sources, sinceReset, tool_manager, api_params,
                   response, messages, tool_results, block, calls, execs>>

\* ------------------------------------------------------------ the system
\* after ToolManager(), CourseSearchTool(store) and AIGenerator(key, model)
Init ==
    /\ tools = <<>>
    /\ last_sources = [t \in SearchTools |-> <<>>]
    /\ lastOp = [op |-> "init"]
    /\ sinceReset = Clean
    /\ pc = [p \in Procs |-> "idle"]
    /\ tool_manager = [p \in Procs |-> FALSE]
    /\ api_params = [p \in Procs |-> << >>]
    /\ response = [p \in Procs |-> None]
    /\ messages = [p \in Procs |-> <<>>]
    /\ tool_results = [p \in Procs |-> <<>>]
    /\ block = [p \in Procs |-> 0]
    /\ calls = [p \in Procs |-> <<>>]
    /\ execs = [p \in Procs |-> <<>>]
    /\ final_response = [p \in Procs |-> None]
    /\ result = [p \in Procs |-> None]

\* the arguments a query is made with
Queries == {"What is MCP?"}
Histories == {None, Some(""), Some("User: hi\nAssistant: hello")}
ToolsArguments == {None, Some(<<>>), Some(<<SearchToolName, OutlineToolName>>)}

\* the keyword arguments a model puts in a tool_use block
SearchKwargs ==
    { [query |-> "recursion"],
      [query |-> "recursion", course_name |-> "MCP", lesson_number |-> 2],
      [query |-> "recursion", course_name |-> "", lesson_number |-> 0] }
OutlineKwargs == { [course_title |-> "MCP"] }

\* the blocks of a response, before their ids are assigned: text, a search,
\* an outline lookup, a tool that is not registered, and a search whose
\* arguments do not bind
BlockShapes ==
    { [type |-> "text", text |-> "Let me look that up."],
      [type |-> "tool_use", name |-> SearchToolName, input |-> [query |-> "recursion"]],
      [type |-> "tool_use", name |-> OutlineToolName, input |-> [course_title |-> "MCP"]],
      [type |-> "tool_use", name |-> "get_weather", input |-> [query |-> "recursion"]],
      [type |-> "tool_use", name |-> SearchToolName, input |-> [course_title |-> "MCP"]] }

\* the block of a shape at position i of a response
BlockOf(shape, i) ==
    IF shape.type = "text" THEN TextBlock(shape.text)
    ELSE ToolUseBlock("toolu_" \o ToString(i), shape.name, shape.input)

\* the responses of the model (each has at least one content block): an
\* ordinary completion is one text block, or a tool request cut off at
\* max_tokens; a tool_use response is any sequence of 1..MaxBlocks blocks
DirectResponses ==
    { [stop_reason |-> sr, content |-> << TextBlock("MCP is a protocol.") >>] :
          sr \in {"end_turn", "max_tokens"} }
    \cup { [stop_reason |-> "max_tokens",
            content |-> << ToolUseBlock("toolu_1", SearchToolName,
                                        [query |-> "recursion"]) >>] }
ToolUseResponses ==
    { [stop_reason |-> "tool_use",
       content |-> [i \in DOMAIN shapes |-> BlockOf(shapes[i], i)]] :
          shapes \in SeqsOf(BlockShapes, 1, MaxBlocks) }
Responses == DirectResponses \cup ToolUseResponses

\* the responses to the final call: a completion, or one more tool request
FinalResponses ==
    { [stop_reason |-> "end_turn", content |-> << TextBlock("MCP has two lessons.") >>],
      [stop_reason |-> "tool_use",
       content |-> << ToolUseBlock("toolu_9", SearchToolName, [query |-> "recursion"]) >>] }

\* what the collaborators answer while a query runs
QuerySearchOutcomes ==
    { RowResults(<<>>),
      RowResults(<< [course_title |-> "MCP"],
                    [course_title |-> "MCP", lesson_number |-> 1] >>),
      ErrorResults("No course found matching 'X'"),
      RaisingSearch }
QueryCatalogOutcomes ==
    { CatalogRaises, CatalogNone,
      CatalogResult(<< [course_link |-> "https://mcp",
                        lessons_json |-> Text("[{\"lesson_title\": \"Untitled\"}]")] >>) }
QueryEnvironments == [search : QuerySearchOutcomes, catalog : QueryCatalogOutcomes]

\* The orchestration loop over one registry: tools are registered, queries
\* run one at a time and citations are reset.
Next ==
    \/ \E t \in {"search1", "outline1"} : ~InFlight("q1") /\ RegisterTool(t)
    \/ ~InFlight("q1") /\ ResetSources
    \/ \E q \in Queries, h \in Histories, ta \in ToolsArguments, m \in BOOLEAN :
          GenerateResponse("q1", q, h, ta, m)
    \/ ModelCallFails("q1")
    \/ \E resp \in Responses : FirstResponse("q1", resp)
    \/ \E env \in QueryEnvironments : ExecuteBlock("q1", env)
    \/ FinalCall("q1")
    \/ \E resp \in FinalResponses : FinalResponse("q1", resp)

Spec == Init /\ [][Next]_vars

\* the outcomes of the index when the registry is used directly: rows of a
\* lesson and of a course without lesson number
ToolsSearchOutcomes ==
    SearchOutcomesOver({ [course_title |-> "MCP", lesson_number |-> 1],
                         [course_title |-> "MCP"] })

\* The registry and its tools used directly: a search with every outcome of
\* the index, an outline lookup, and calls whose name or arguments do not fit.
NextTools ==
    \/ \E t \in {"search1", "outline1"} : RegisterTool(t)
    \/ ResetSources
    \/ \E k \in SearchKwargs, s \in ToolsSearchOutcomes :
          ExecuteTool(SearchToolName, k, [search |-> s, catalog |-> CatalogNone])
    \/ \E k \in OutlineKwargs, c \in CatalogOutcomes :
          ExecuteTool(OutlineToolName, k, [search |-> RowResults(<<>>), catalog |-> c])
    \/ \E n \in {SearchToolName, OutlineToolName, "get_weather"} :
          ExecuteTool(n, [topic |-> "recursion"],
                      [search |-> RowResults(<<>>), catalog |-> CatalogNone])

SpecTools == Init /\ [][NextTools]_vars

\* the outcomes of the index while the registrations are looked at: no rows,
\* or one row of course "MCP"
RegistrySearchOutcomes ==
    { RowResults(<<>>), RowResults(<< [course_title |-> "MCP"] >>) }

\* the outcomes of the index for the tool registered as NotesToolName: no
\* rows, or one row of lesson 1
NotesSearchOutcomes ==
    { RowResults(<<>>), RowResults(<< [course_title |-> "MCP", lesson_number |-> 1] >>) }

\* The registrations of a registry: every tool instance is registered, also
\* a second search tool under the name of the first and tools whose
\* definition has no name, between searches, outline lookups, reads of the
\* citations and resets.
NextRegistry ==
    \/ \E t \in ToolInstances : RegisterTool(t)
    \/ ResetSources
    \/ \E s \in RegistrySearchOutcomes :
          ExecuteTool(SearchToolName, [query |-> "recursion"],
                      [search |-> s, catalog |-> CatalogNone])
    \/ \E s \in NotesSearchOutcomes :
          ExecuteTool(NotesToolName, [query |-> "recursion"],
                      [search |-> s, catalog |-> CatalogNone])
    \/ ExecuteTool(OutlineToolName, [course_title |-> "MCP"],
                   [search |-> RowResults(<<>>), catalog |-> CatalogNone])
    \/ GetLastSourcesCall

SpecRegistry == Init /\ [][NextRegistry]_vars

\* One search tool and every answer of the index, over all metadata dicts:
\* rows with and without lesson number, with and without links, without
\* course title.
NextFormat ==
    \/ RegisterTool("search1")
    \/ \E s \in SearchOutcomes :
          ExecuteTool(SearchToolName, [query |-> "recursion"],
                      [search |-> s, catalog |-> CatalogNone])

SpecFormat == Init /\ [][NextFormat]_vars

\* -------------------------------------------- two queries on one registry
\* The caller of generate_response reads the citations of its query once the
\* answer is there: ToolManager.get_last_sources().
CollectSources(p) ==
    /\ pc[p] = "done"
    /\ pc' = [pc EXCEPT ![p] = "collected"]
    /\ lastOp' = [op |-> "get_last_sources", proc |-> p, sources |-> GetLastSources]
    /\ UNCHANGED <<tools, last_sources, sinceReset, tool_manager, api_params,
                   response, messages, tool_results, block, calls, execs,
                   final_response, result>>

\* The caller resets the citations it has read, ToolManager.reset_sources(),
\* and is through with its query.
ResetCitations(p) ==
    /\ pc[p] = "collected"
    /\ last_sources' = ResetAll(tools, last_sources)
    /\ sinceReset' = Clean
    /\ lastOp' = [op |-> "reset_sources", proc |-> p]
    /\ pc' = [pc EXCEPT ![p] = "idle"]
    /\ tool_manager' = [tool_manager EXCEPT ![p] = FALSE]
    /\ api_params' = [api_params EXCEPT ![p] = << >>]
    /\ response' = [response EXCEPT ![p] = None]
    /\ messages' = [messages EXCEPT ![p] = <<>>]
    /\ tool_results' = [tool_results EXCEPT ![p] = <<>>]
    /\ block' = [block EXCEPT ![p] = 0]
    /\ calls' = [calls EXCEPT ![p] = <<>>]
    /\ execs' = [execs EXCEPT ![p] = <<>>]
    /\ final_response' = [final_response EXCEPT ![p] = None]
    /\ result' = [result EXCEPT ![p] = None]
    /\ UNCHANGED tools

\* what the index answers to the search of each query: rows of lesson 1 to
\* the one, rows of the course to the other
SharedRows(p) ==
    IF p = "q1" THEN RowResults(<< [course_title |-> "MCP", lesson_number |-> 1] >>)
    ELSE RowResults(<< [course_title |-> "MCP"] >>)

\* the first responses of the model: one search, or a direct answer
SharedResponses ==
    { [stop_reason |-> "tool_use",
       content |-> << ToolUseBlock("toolu_1", SearchToolName,
                                   [query |-> "recursion"]) >>],
      [stop_reason |-> "end_turn", content |-> << TextBlock("MCP is a protocol.") >>] }

\* Two queries handled at the same time on one registry with one search
\* tool: the steps of their generate_response calls and of their callers
\* interleave freely.
NextShared ==
    \/ tools = <<>> /\ RegisterTool("search1")
    \/ \E p \in Procs :
          /\ tools # <<>>
          /\ pc[p] = "idle"
          /\ GenerateResponse(p, "What is MCP?", None, Some(<<SearchToolName>>), TRUE)
    \/ \E p \in Procs, resp \in SharedResponses : FirstResponse(p, resp)
    \/ \E p \in Procs :
          ExecuteBlock(p, [search |-> SharedRows(p), catalog |-> CatalogNone])
    \/ \E p \in Procs : FinalCall(p)
    \/ \E p \in Procs :
          FinalResponse(p, [stop_reason |-> "end_turn",
                            content |-> << TextBlock("MCP has two lessons.") >>])
    \/ \E p \in Procs : CollectSources(p)
    \/ \E p \in Procs : ResetCitations(p)

SpecShared == Init /\ [][NextShared]_vars

\* ------------------------------------------- several searches in one turn
\* what the index answers to the searches of one turn: no rows, rows of
\* lesson 1, rows of lesson 2 and of the course, or a fault
TurnSearchOutcomes ==
    { RowResults(<<>>),
      RowResults(<< [course_title |-> "MCP", lesson_number |-> 1] >>),
      RowResults(<< [course_title |-> "MCP", lesson_number |-> 2],
                    [course_title |-> "MCP"] >>),
      RaisingSearch }

\* the first responses of the model: 1..MaxBlocks blocks, each a search or
\* text
TurnResponses ==
    { [stop_reason |-> "tool_use",
       content |-> [i \in DOMAIN shapes |-> BlockOf(shapes[i], i)]] :
          shapes \in SeqsOf({sh \in BlockShapes :
                                sh.type = "text"
                                \/ (sh.name = SearchToolName
                                      /\ BindsSearch(sh.input))},
                            1, MaxBlocks) }

\* One query after the other on a registry with the search tool, the model
\* asking for one or several searches in its first response.
NextTurn ==
    \/ tools = <<>> /\ RegisterTool("search1")
    \/ ~InFlight("q1") /\ tools # <<>> /\ ResetSources
    \/ /\ tools # <<>>
       /\ GenerateResponse("q1", "What is MCP?", None, Some(<<SearchToolName>>), TRUE)
    \/ \E resp \in TurnResponses : FirstResponse("q1", resp)
    \/ \E s \in TurnSearchOutcomes :
          ExecuteBlock("q1", [search |-> s, catalog |-> CatalogNone])
    \/ FinalCall("q1")
    \/ FinalResponse("q1", [stop_reason |-> "end_turn",
                            content |-> << TextBlock("MCP has two lessons.") >>])

SpecTurn == Init /\ [][NextTurn]_vars

\* ------------------------------------------ arguments that do not fit
\* the tool_use blocks of a model that also gets the arguments wrong: a
\* search and an outline lookup as they should be, and each with a required
\* argument missing or with an argument the tool does not have
BindShapes ==
    { [type |-> "tool_use", name |-> SearchToolName, input |-> [query |-> "recursion"]],
      [type |-> "tool_use", name |-> SearchToolName, input |-> [course_name |-> "MCP"]],
      [type |-> "tool_use", name |-> SearchToolName,
       input |-> [query |-> "recursion", topic |-> "MCP"]],
      [type |-> "tool_use", name |-> OutlineToolName, input |-> [course_title |-> "MCP"]],
      [type |-> "tool_use", name |-> OutlineToolName, input |-> << >>],
      [type |-> "tool_use", name |-> OutlineToolName,
       input |-> [course_title |-> "MCP", lesson_number |-> 1]] }

BindResponses ==
    { [stop_reason |-> "tool_use",
       content |-> [i \in DOMAIN shapes |-> BlockOf(shapes[i], i)]] :
          shapes \in SeqsOf(BindShapes, 1, MaxBlocks) }

\* One query after the other on a registry with both tools, the model
\* sending tool_use blocks whose arguments fit or do not fit.
NextBind ==
    \/ \E t \in {"search1", "outline1"} :
          ~InFlight("q1") /\ t \notin {tools[i].tool : i \in DOMAIN tools}
                         /\ RegisterTool(t)
    \/ /\ Len(tools) = 2
       /\ GenerateResponse("q1", "What is MCP?", None,
                           Some(<<SearchToolName, OutlineToolName>>), TRUE)
    \/ \E resp \in BindResponses : FirstResponse("q1", resp)
    \/ \E s \in RegistrySearchOutcomes :
          ExecuteBlock("q1", [search |-> s, catalog |-> CatalogNone])
    \/ FinalCall("q1")
    \/ FinalResponse("q1", [stop_reason |-> "end_turn",
                            content |-> << TextBlock("MCP has two lessons.") >>])

SpecBind == Init /\ [][NextBind]_vars

\* ------------------------------------------------------ the query endpoint
\* POST /api/query of the application the tests build (tests/test_app.py,
\* create_test_app).  A request body is a JSON object: a function from the
\* keys it has to their values, a value being <<s>> for the string s and
\* <<>> for null.
DefaultSession == "test-session-123"

\* QueryRequest validates the body: query is a required str; session_id is a
\* str with default None.  Whether an explicit null passes for session_id
\* depends on the pydantic release that is installed (null_ok).
ValidRequest(body, null_ok) ==
    /\ "query" \in DOMAIN body
    /\ body.query # None
    /\ ("session_id" \in DOMAIN body /\ body.session_id = None) => null_ok

\* request.session_id once the body is validated
RequestSession(body) ==
    IF "session_id" \in DOMAIN body THEN body.session_id ELSE None

\* the session id the client holds: that of the latest answer it received
Held == IF lastOp.op = "query_documents" THEN lastOp.held ELSE None

\* faulty variant: every answer carries the default session id
QueryDocumentsNewSession(body, null_ok) ==
    /\ lastOp' =
          IF ~ValidRequest(body, null_ok)
          THEN [op |-> "query_documents", request |-> body, status |-> 422,
                response |-> None, held |-> Held, before |-> Held]
          ELSE [op |-> "query_documents", request |-> body, status |-> 200,
                response |-> Some([answer |-> "Test answer for: " \o body.query[1],
                                   sources |-> << "Relevant content for "
                                                     \o body.query[1] >>,
                                   session_id |-> DefaultSession]),
                held |-> Some(DefaultSession), before |-> Held]
    /\ UNCHANGED <<tools, last_sources, sinceReset>>
    /\ UNCHANGED genVars

\* query_documents(request) for the request body, with what the client held
\* before the request
QueryDocuments(body, null_ok) ==
    /\ lastOp' =
          IF ~ValidRequest(body, null_ok)
          THEN [op |-> "query_documents", request |-> body, status |-> 422,
                response |-> None, held |-> Held, before |-> Held]
          ELSE LET session_id == IF TruthyStr(RequestSession(body))
                                 THEN RequestSession(body)[1] ELSE DefaultSession
               IN  [op |-> "query_documents", request |-> body, status |-> 200,
                    response |-> Some([answer |-> "Test answer for: "
                                                     \o body.query[1],
                                       sources |-> << "Relevant content for "
                                                         \o body.query[1] >>,
                                       session_id |-> session_id]),
                    held |-> Some(session_id), before |-> Held]
    /\ UNCHANGED <<tools, last_sources, sinceReset>>
    /\ UNCHANGED genVars

\* the bodies a client sends: with or without query and session_id, the
\* session id being null, empty, one of its own or the one it holds
QueryValues ==
    {None, Some(""), Some("What is Python?"), Some("Tell me more about Python lists")}
SessionValues ==
    {None, Some(""), Some("test-session-456"), Some("test-session-789")}
        \cup {Held}
RequestBodies ==
    {[query |-> q] : q \in QueryValues}
    \cup {[query |-> q, session_id |-> sid] : q \in QueryValues, sid \in SessionValues}
    \cup {[session_id |-> sid] : sid \in SessionValues}
    \cup { << >> }

\* The endpoint answering one request after the other.
NextApi ==
    \E body \in RequestBodies, null_ok \in BOOLEAN : QueryDocuments(body, null_ok)

SpecApi == Init /\ [][NextApi]_vars

\* ================================================================= claims
IsToolUse(b) == b.type = "tool_use"

\* the tool_use blocks of a content list, in order
ToolUsesOf(content) == SelectSeq(content, IsToolUse)

\* the first response of call p has arrived and has stop reason tool_use
FirstWasToolUse(p) ==
    response[p] # None /\ response[p][1].stop_reason = "tool_use"

\* C1: every generate_response call whose first response has stop reason
\* tool_use, with or without tools and tool_manager, issues exactly two model
\* calls, the second without tools and without tool_choice.
C1_ToolUseIssuesTwoCalls ==
    \A p \in Procs :
        (pc[p] = "done" /\ FirstWasToolUse(p))
        => /\ Len(calls[p]) = 2
           /\ "tools" \notin DOMAIN calls[p][2]
           /\ "tool_choice" \notin DOMAIN calls[p][2]

C3_OneRetrievalRound ==
    \A p \in Procs :
        /\ Len(calls[p]) <= 2
        /\ \A i \in DOMAIN execs[p] : execs[p][i].calls = 1
        /\ pc[p] = "tools" => Len(calls[p]) = 1
        /\ final_response[p] # None => (pc[p] = "done" /\ Len(calls[p]) = 2)

C3_Witness ==
    /\ final_response["q1"] # None
    /\ final_response["q1"][1].stop_reason = "tool_use"
    /\ Len(execs["q1"]) = 2
    /\ pc["q1"] = "done"

\* the blocks the for loop of call p has gone through
Handled(p) ==
    IF pc[p] = "raised" /\ block[p] <= Len(response[p][1].content)
    THEN block[p] ELSE block[p] - 1

\* C4: in the tool-executing step, execute_tool is called once per tool_use
\* block, in block order, with the block's name and arguments, and
\* tool_results has one entry per tool_use block gone through, in the same
\* order, with the block's id and the result of that block's own call.
C4_OneResultPerToolUse ==
    \A p \in Procs :
        (FirstWasToolUse(p) /\ tool_manager[p])
        => LET content == response[p][1].content
               called == ToolUsesOf(SubSeq(content, 1, Handled(p)))
               answered == ToolUsesOf(SubSeq(content, 1, block[p] - 1))
           IN  /\ Len(execs[p]) = Len(called)
               /\ \A i \in DOMAIN called :
                     /\ execs[p][i].name = called[i].name
                     /\ execs[p][i].kwargs = called[i].input
                     /\ execs[p][i].id = called[i].id
               /\ Len(tool_results[p]) = Len(answered)
               /\ \A i \in DOMAIN answered :
                     tool_results[p][i] =
                         [type |-> "tool_result", tool_use_id |-> answered[i].id,
                          content |-> execs[p][i].out.value]

C4_Witness ==
    /\ pc["q1"] = "call2"
    /\ Len(tool_results["q1"]) = 2
    /\ tool_results["q1"][1].content # tool_results["q1"][2].content
    /\ execs["q1"][1].tool = Some("search1")

\* C5 as claimed: the final call always carries three turns, the third with
\* the tool results, also when the response has no tool_use block.
C5_ThreeTurns ==
    \A p \in Procs :
        Len(calls[p]) = 2
        => LET m == calls[p][2].messages
           IN  /\ Len(m) = 3
               /\ m[1] = calls[p][1].messages[1]
               /\ m[2] = [role |-> "assistant", content |-> response[p][1].content]
               /\ m[3] = [role |-> "user", content |-> tool_results[p]]

\* C5: the final call carries the original user turn, the model's turn
\* verbatim as an assistant turn and, when the response has at least one
\* tool_use block, one user turn with all tool results; with no tool_use
\* block it carries the first two turns only.
C5_TurnsOfFinalCall ==
    \A p \in Procs :
        Len(calls[p]) = 2
        => LET m == calls[p][2].messages
               content == response[p][1].content
           IN  /\ Len(calls[p][1].messages) = 1
               /\ m[1] = calls[p][1].messages[1]
               /\ m[1].role = "user"
               /\ m[2] = [role |-> "assistant", content |-> content]
               /\ IF ToolUsesOf(content) # <<>>
                  THEN /\ Len(m) = 3
                       /\ m[3] = [role |-> "user", content |-> tool_results[p]]
                       /\ Len(tool_results[p]) = Len(ToolUsesOf(content))
                  ELSE Len(m) = 2

C5_Witness ==
    /\ Len(calls["q1"]) = 2
    /\ Len(calls["q1"][2].messages) = 3
    /\ Len(calls["q1"][2].messages[3].content) = 2

\* call p asked for tools, and every tool it asked for is not registered
OnlyUnregistered(p) ==
    /\ FirstWasToolUse(p)
    /\ tool_manager[p]
    /\ ToolUsesOf(response[p][1].content) # <<>>
    /\ \A i \in DOMAIN response[p][1].content :
          LET b == response[p][1].content[i]
          IN  IsToolUse(b) => ~Registered(tools, b.name)

\* C6: execute_tool with a name that is not registered returns
\* "Tool '<name>' not found" and does not raise; a call that asked only for
\* unregistered tools issues the final call with that text as the result of
\* each invocation id and returns the final response's text.
C6_UnregisteredTool ==
    \A p \in Procs :
        /\ \A i \in DOMAIN execs[p] :
              ~Registered(tools, execs[p][i].name)
              => execs[p][i].out
                   = Return("Tool '" \o execs[p][i].name \o "' not found")
        /\ OnlyUnregistered(p)
           => LET uses == ToolUsesOf(response[p][1].content)
              IN  /\ pc[p] = "raised" => Len(calls[p]) = 2
                  /\ pc[p] \in {"call2", "done"}
                     => /\ Len(calls[p]) = 2
                        /\ calls[p][2].messages[3].content =
                             [i \in DOMAIN uses |->
                                 [type |-> "tool_result", tool_use_id |-> uses[i].id,
                                  content |-> "Tool '" \o uses[i].name \o "' not found"]]
                  /\ (pc[p] = "done" /\ "text" \in DOMAIN final_response[p][1].content[1])
                     => result[p] = Some(Return(final_response[p][1].content[1].text))

C6_Witness ==
    /\ OnlyUnregistered("q1")
    /\ pc["q1"] = "done"
    /\ Len(execs["q1"]) = 2
    /\ tools # <<>>
    /\ final_response["q1"][1].stop_reason = "end_turn"

\* the last step was a CourseSearchTool.execute call the index answered
SearchAnswered ==
    /\ lastOp.op = "execute_tool"
    /\ lastOp.results # None
    /\ ~lastOp.results[1].raises

\* C7: after every CourseSearchTool.execute call, whatever its outcome, the
\* instance's last_sources has exactly one entry per result row of that
\* call, in result order.
C7_SourcesOfThisCall ==
    SearchAnswered
    => last_sources[lastOp.tool[1]] =
          [i \in 1..Min(Len(lastOp.results[1].documents),
                        Len(lastOp.results[1].metadata)) |->
              SourceInfo(lastOp.results[1].metadata[i])]

\* C8: a content search with a lesson filter for which the index returns
\* zero rows and no error leaves last_sources empty, whatever it held.
C8_NoRowsNoSources ==
    (/\ SearchAnswered
     /\ "lesson_number" \in DOMAIN lastOp.kwargs
     /\ lastOp.results[1] = RowResults(<<>>))
    => last_sources[lastOp.tool[1]] = <<>>

\* C9: without a reset in between, get_last_sources returns the citations
\* of the rows of the latest content search run through the registry (none
\* when that search had no rows or an error).
C9_SourcesOfLatestSearch ==
    (/\ sinceReset.search # None
     /\ ~sinceReset.registered
     /\ ~sinceReset.search[1].raises)
    => GetLastSources =
          [i \in 1..Min(Len(sinceReset.search[1].documents),
                        Len(sinceReset.search[1].metadata)) |->
              SourceInfo(sinceReset.search[1].metadata[i])]

\* C10: after reset_sources, as long as no content search runs (direct
\* answers, outline lookups, unknown tools, further resets),
\* get_last_sources returns the empty list.
C10_EmptyAfterReset == sinceReset = Clean => GetLastSources = <<>>

C10_Witness ==
    /\ sinceReset = Clean
    /\ Registered(tools, SearchToolName)
    /\ pc["q1"] = "done"
    /\ Len(execs["q1"]) = 2
    /\ execs["q1"][1].tool = Some("outline1")
    /\ execs["q1"][2].tool = None

\* call p ended with the failure of a model call
ModelCallFailed(p) == result[p] = Some(Raise("APIError"))

\* C11: when the first or the final model call fails, generate_response
\* raises that failure and returns no answer; the failed call is the last
\* model call it issued (no retry, no further call): a failure of the first
\* call leaves one call and no response, a failure of the final call leaves
\* two calls and no final response.
C11_ModelCallFailurePropagates ==
    \A p \in Procs :
        /\ ModelCallFailed(p)
           => /\ pc[p] = "raised"
              /\ \/ Len(calls[p]) = 1 /\ response[p] = None
                 \/ Len(calls[p]) = 2 /\ response[p] # None
              /\ final_response[p] = None
        /\ (pc[p] = "raised" /\ response[p] = None) => ModelCallFailed(p)
        /\ (pc[p] = "raised" /\ Len(calls[p]) = 2) => ModelCallFailed(p)

C11_Witness ==
    /\ ModelCallFailed("q1")
    /\ Len(calls["q1"]) = 2
    /\ Len(tool_results["q1"]) = 1

\* the index raised during the execute_tool call of record e: in the
\* content search, or in the outline lookup
SearchFaulted(e) == e.results # None /\ e.results[1].raises
LookupFaulted(e) == e.catalog # None /\ e.catalog[1].raises

\* the fault of the i-th execute_tool call of p left generate_response
FaultLeft(p, i) ==
    /\ execs[p][i].out.raised
    /\ pc[p] = "raised"
    /\ result[p] = Some(execs[p][i].out)
    /\ i = Len(execs[p])
    /\ Len(calls[p]) = 1
    /\ Len(execs[p][i].searches) <= 1

\* C12 as claimed: a fault of the index during a tool execution leaves
\* generate_response, for the content search and the outline lookup alike.
C12_IndexFaultPropagates ==
    \A p \in Procs : \A i \in DOMAIN execs[p] :
        (SearchFaulted(execs[p][i]) \/ LookupFaulted(execs[p][i]))
        => FaultLeft(p, i)

\* C12: a fault of the index during a content search leaves
\* generate_response: the call raises, no final model call is issued and the
\* search is not retried.  A fault during an outline lookup is caught by the
\* tool: its text, "Error retrieving course outline: ...", is the result of
\* the invocation and the loop goes on.
C12_SearchFaultPropagates ==
    \A p \in Procs : \A i \in DOMAIN execs[p] :
        /\ SearchFaulted(execs[p][i]) => FaultLeft(p, i)
        /\ LookupFaulted(execs[p][i])
           => /\ execs[p][i].out
                    = Return("Error retrieving course outline: catalog unavailable")
              /\ Len(tool_results[p]) >= i
              /\ tool_results[p][i].content = execs[p][i].out.value
              /\ pc[p] \in {"call2", "done"} => Len(calls[p]) = 2

C12_Witness ==
    /\ Len(execs["q1"]) = 2
    /\ LookupFaulted(execs["q1"][1])
    /\ SearchFaulted(execs["q1"][2])
    /\ pc["q1"] = "raised"

\* the last step was a CourseOutlineTool.execute call that reached the catalog
OutlineRan == lastOp.op = "execute_tool" /\ lastOp.catalog # None

\* the catalog has an entry with metadata for the title asked for
CatalogHit(c) ==
    /\ ~c.raises
    /\ c.result # None
    /\ c.result[1].metadatas # <<>>
    /\ DOMAIN c.result[1].metadatas[1] # {}

\* the lesson-list field as stored ("[]" when the entry has none)
StoredLessons(c) ==
    IF "lessons_json" \in DOMAIN c.result[1].metadatas[1]
    THEN c.result[1].metadatas[1].lessons_json ELSE Text("[]")

\* the texts that report a failure of the lookup
OutlineErrorTexts ==
    {"Error retrieving course outline" \o ": " \o e :
         e \in {"catalog unavailable", "TypeError"}}

\* C13: CourseOutlineTool.execute does not raise; when the catalog lookup
\* fails, or the stored lesson list cannot be processed (a value that is not
\* text, JSON that is not a list), it returns a text that starts with
\* "Error retrieving course outline".
C13_OutlineNeverRaises ==
    OutlineRan
    => LET c == lastOp.catalog[1]
       IN  /\ ~lastOp.out.raised
           /\ (\/ c.raises
               \/ CatalogHit(c) /\ StoredLessons(c) \in {NotText, Text("5")})
              => lastOp.out.value \in OutlineErrorTexts

C13_Witness ==
    /\ OutlineRan
    /\ CatalogHit(lastOp.catalog[1])
    /\ StoredLessons(lastOp.catalog[1]) = NotText
    /\ lastOp.out.value \in OutlineErrorTexts

\* the outline of a course without lessons
EmptyOutline(course_title, c) ==
    OutlineTitleLabel \o course_title \o "\n"
        \o OutlineLinkLabel
        \o (IF "course_link" \in DOMAIN c.result[1].metadatas[1]
            THEN c.result[1].metadatas[1].course_link ELSE NoCourseLink)
        \o "\n\n" \o OutlineLessonsLabel \o OutlineNoLessons

\* C14: for a catalog hit whose lesson-list field is malformed (text that is
\* not JSON, JSON that is not a list of lessons, a value that is not text),
\* CourseOutlineTool.execute returns the outline with the title, the link
\* and the no-lessons statement.
C14_MalformedLessonsDegrade ==
    (/\ OutlineRan
     /\ CatalogHit(lastOp.catalog[1])
     /\ StoredLessons(lastOp.catalog[1])
            \in {Text("{not json"), Text("5"), Text("null"), NotText})
    => lastOp.out
          = Return(EmptyOutline(lastOp.kwargs.course_title, lastOp.catalog[1]))

\* C15: for a title that is absent from the catalog (the lookup returns
\* nothing, an empty metadata list, or empty metadata), execute returns
\* "Course '<title>' not found." and does not raise.
C15_AbsentTitleNotFound ==
    (/\ OutlineRan
     /\ lastOp.catalog[1]
            \in {CatalogNone, CatalogResult(<<>>), CatalogResult(<< << >> >>)})
    => lastOp.out
          = Return("Course '" \o lastOp.kwargs.course_title \o "' not found.")

C15_Witness ==
    /\ OutlineRan
    /\ lastOp.catalog[1] = CatalogResult(<< << >> >>)
    /\ lastOp.out.value = "Course 'MCP' not found."

\* the message that names every filter given to a search without rows
NamesGivenFilters(kwargs) ==
    "No relevant content found"
        \o (IF "course_name" \in DOMAIN kwargs /\ kwargs.course_name # ""
            THEN " in course '" \o kwargs.course_name \o "'" ELSE "")
        \o (IF "lesson_number" \in DOMAIN kwargs
            THEN " in lesson " \o ToString(kwargs.lesson_number) ELSE "")
        \o "."

\* C16: when the index returns zero rows and no error, execute returns a
\* message that names the course whenever a course name was given and the
\* lesson whenever a lesson number was given, lesson 0 included.
C16_NoContentNamesFilters ==
    (SearchAnswered /\ lastOp.results[1] = RowResults(<<>>))
    => lastOp.out = Return(NamesGivenFilters(lastOp.kwargs))

\* the last step was a content search for which the index reported an error
SearchErrored == SearchAnswered /\ lastOp.results[1].error # None

\* C17: a content search for which the index reports an error returns the
\* index's error text and nothing else, does not raise, and formats no row:
\* the citation lists are as they were before the call.
C17_IndexErrorVerbatim ==
    [][SearchErrored'
       => /\ lastOp'.out = Return(lastOp'.results[1].error[1])
          /\ last_sources' = last_sources]_vars

C17_Witness ==
    /\ SearchErrored
    /\ lastOp.out.value = "No course found matching 'X'"
    /\ last_sources["search1"] # <<>>

\* the last step was a register_tool call for a tool whose definition has
\* no name: the key is missing or its value is empty
NamelessRegistered ==
    /\ lastOp.op = "register_tool"
    /\ DeclaredName(lastOp.tool) \in {None, Some("")}

\* C18: register_tool raises for a tool whose definition has no name or an
\* empty name, and the registered tools are then as they were before.
C18_NamelessToolRefused ==
    [][NamelessRegistered'
       => /\ lastOp'.out = Raise("ValueError")
          /\ tools' = tools]_vars

C18_Witness ==
    /\ NamelessRegistered
    /\ lastOp.tool = "emptyname1"
    /\ lastOp.out.raised
    /\ Len(tools) = 2

\* the positions of get_tool_definitions() that carry the name
EntriesNamed(name) ==
    {i \in DOMAIN GetToolDefinitions(tools) : GetToolDefinitions(tools)[i] = name}

\* C19: right after a tool is registered, get_tool_definitions has exactly
\* one entry with that tool's declared name, and it is that tool's, also
\* when another tool had been registered under the name before.
C19_OneEntryPerName ==
    (lastOp.op = "register_tool" /\ ~lastOp.out.raised)
    => LET name == DeclaredName(lastOp.tool)[1]
       IN  /\ Cardinality(EntriesNamed(name)) = 1
           /\ \A i \in EntriesNamed(name) : tools[i].tool = lastOp.tool

C19_Witness ==
    /\ lastOp.op = "register_tool"
    /\ lastOp.tool = "search2"
    /\ last_sources["search1"] # <<>>
    /\ Len(tools) = 2
    /\ tools[1].tool = "search2"

\* the block of one result row: "[title]" or "[title - Lesson n]", a newline
\* and the chunk text
RowBlock(doc, meta) ==
    "[" \o (IF "course_title" \in DOMAIN meta THEN meta.course_title ELSE "unknown")
        \o (IF "lesson_number" \in DOMAIN meta
            THEN " - Lesson " \o ToString(meta.lesson_number) ELSE "")
        \o "]" \o "\n" \o doc

\* the blocks of rows i..n in ranked order, one blank line between two blocks
RECURSIVE RankedBlocks(_, _, _, _)
RankedBlocks(documents, metadata, i, n) ==
    IF i > n THEN ""
    ELSE RowBlock(documents[i], metadata[i])
            \o (IF i < n THEN "\n\n" ELSE "")
            \o RankedBlocks(documents, metadata, i + 1, n)

\* the last step was a content search the index answered with rows
SearchReturnedRows ==
    /\ SearchAnswered
    /\ lastOp.results[1].error = None
    /\ ~IsEmpty(lastOp.results[1])

\* C20: for a result set with rows, execute returns one block per row in
\* ranked order, each the header "[title]" or "[title - Lesson n]" (the
\* latter exactly when the row's metadata has a lesson number), a newline
\* and the raw chunk text, with one blank line between consecutive blocks.
C20_BlocksInRankedOrder ==
    SearchReturnedRows
    => LET r == lastOp.results[1]
       IN  lastOp.out
              = Return(RankedBlocks(r.documents, r.metadata, 1,
                                    Min(Len(r.documents), Len(r.metadata))))

C20_Witness ==
    /\ SearchReturnedRows
    /\ Len(lastOp.results[1].documents) = 2
    /\ Len(lastOp.results[1].metadata) = 2
    /\ "lesson_number" \in DOMAIN lastOp.results[1].metadata[1]
    /\ "lesson_number" \notin DOMAIN lastOp.results[1].metadata[2]
    /\ lastOp.out.value = "[MCP - Lesson 1]\nchunk1\n\n[MCP]\nchunk2"

\* the link the index has for a row: of the lesson when the metadata has a
\* lesson number, else of the course when it has a course title, else none
RowLink(meta) ==
    IF "lesson_number" \in DOMAIN meta
    THEN StoreLessonLink(IF "course_title" \in DOMAIN meta
                         THEN meta.course_title ELSE "unknown",
                         meta.lesson_number)
    ELSE IF "course_title" \in DOMAIN meta
    THEN StoreCourseLink(meta.course_title)
    ELSE None

\* C21: after a search with rows, the link of every citation is the lesson's
\* link when the row's metadata has a lesson number, otherwise the course's
\* link, otherwise absent.
C21_CitationLinks ==
    SearchReturnedRows
    => LET r == lastOp.results[1]
           cited == last_sources[lastOp.tool[1]]
       IN  /\ Len(cited) = Min(Len(r.documents), Len(r.metadata))
           /\ \A i \in DOMAIN cited : cited[i].link = RowLink(r.metadata[i])

C21_Witness ==
    /\ SearchReturnedRows
    /\ Len(last_sources["search1"]) = 2
    /\ last_sources["search1"][1].link = Some("https://mcp/lesson1")
    /\ last_sources["search1"][2].link = Some("https://mcp")

\* the last step was a CourseSearchTool.execute call whose arguments bind
SearchInvoked ==
    /\ lastOp.op = "execute_tool"
    /\ lastOp.tool # None
    /\ lastOp.tool[1] \in SearchTools
    /\ "query" \in DOMAIN lastOp.kwargs
    /\ DOMAIN lastOp.kwargs \subseteq {"query", "course_name", "lesson_number"}

\* C22: every CourseSearchTool.execute call makes exactly one store.search
\* call, with the query and the filters it was given, whether the index
\* answers with rows, no rows or an error, or raises.
C22_OneSearchPerCall ==
    SearchInvoked
    => lastOp.searches =
          << [query |-> lastOp.kwargs.query,
              course_name |-> IF "course_name" \in DOMAIN lastOp.kwargs
                              THEN << lastOp.kwargs.course_name >> ELSE << >>,
              lesson_number |-> IF "lesson_number" \in DOMAIN lastOp.kwargs
                                THEN << lastOp.kwargs.lesson_number >> ELSE << >>] >>

C22_Witness ==
    /\ SearchInvoked
    /\ lastOp.results = Some(RowResults(<<>>))
    /\ lastOp.kwargs = [query |-> "recursion", course_name |-> "MCP",
                        lesson_number |-> 2]
    /\ Len(lastOp.searches) = 1

\* the stored lesson lists that are well formed: no lessons, and lessons 1
\* "Intro" and 2 "Tools" in this order
NoStoredLessons == Text("[]")
TwoStoredLessons ==
    Text("[{\"lesson_number\": 1, \"lesson_title\": \"Intro\"}, {\"lesson_number\": 2, \"lesson_title\": \"Tools\"}]")

\* the title and link lines of the outline of a catalog hit
OutlineHead(course_title, c) ==
    "Course: " \o course_title \o "\n"
        \o "Course link: "
        \o (IF "course_link" \in DOMAIN c.result[1].metadatas[1]
            THEN c.result[1].metadatas[1].course_link
            ELSE "No course link available")
        \o "\n\n" \o "Lessons:\n"

\* C23: on a catalog hit execute renders the course title, then the course
\* link or "No course link available", then one line per lesson with its
\* number and title in stored order; for an empty lesson list it prints the
\* no-lessons statement.
C23_OutlineRendering ==
    (OutlineRan /\ CatalogHit(lastOp.catalog[1]))
    => LET c == lastOp.catalog[1]
           head == OutlineHead(lastOp.kwargs.course_title, c)
       IN  /\ StoredLessons(c) = NoStoredLessons
              => lastOp.out = Return(head \o "  This course has no lessons yet.")
           /\ StoredLessons(c) = TwoStoredLessons
              => lastOp.out
                    = Return(head \o "  Lesson 1: Intro\n" \o "  Lesson 2: Tools\n")

C23_Witness ==
    /\ OutlineRan
    /\ CatalogHit(lastOp.catalog[1])
    /\ "course_link" \notin DOMAIN lastOp.catalog[1].result[1].metadatas[1]
    /\ StoredLessons(lastOp.catalog[1]) = TwoStoredLessons
    /\ ~lastOp.out.raised

\* the last step was a request to the query endpoint
Queried == lastOp.op = "query_documents"

\* C24: a request whose query is the empty string is refused with status
\* 422 and gets no answer.
C24_EmptyQueryRefused ==
    (Queried /\ "query" \in DOMAIN lastOp.request
             /\ lastOp.request.query = Some(""))
    => (lastOp.status = 422 /\ lastOp.response = None)

\* the request carried a session id: a string that is not empty
SessionSupplied ==
    /\ "session_id" \in DOMAIN lastOp.request
    /\ lastOp.request.session_id \notin {None, Some("")}

\* C25: every successful answer carries a session id; it is the request's
\* session id whenever the request carried one, so a session id received
\* with one answer and sent with the next request comes back unchanged.
C25_SessionIdReturned ==
    (Queried /\ lastOp.status = 200)
    => /\ lastOp.response # None
       /\ lastOp.response[1].session_id # ""
       /\ SessionSupplied
          => lastOp.response[1].session_id = lastOp.request.session_id[1]
       /\ (SessionSupplied /\ lastOp.request.session_id = lastOp.before)
          => lastOp.held = lastOp.before

C25_Witness ==
    /\ Queried
    /\ lastOp.status = 200
    /\ lastOp.before = Some(DefaultSession)
    /\ lastOp.request.query = Some("Tell me more about Python lists")
    /\ "session_id" \in DOMAIN lastOp.request
    /\ lastOp.request.session_id = lastOp.before
    /\ lastOp.response[1].session_id = DefaultSession

\* a caller has just read the citations of its query
CitationsRead == lastOp.op = "get_last_sources" /\ "proc" \in DOMAIN lastOp

\* query p has run its own search, which returned its own rows
Searched(p) ==
    \E i \in DOMAIN execs[p] : execs[p][i].results = Some(SharedRows(p))

\* the other query
Other(p) == CHOOSE o \in Procs : o # p

\* C26: on a registry shared by two interleaved queries, the citation list
\* read for a query is not tied to that query: it is the list of the latest
\* search since the last reset, whichever query ran the search, and it is
\* empty when a reset (of either query) came after the latest search.  So
\* the interleaving in which a query reads, after its own tool execution,
\* the list produced by the other query's search is reachable, and so is
\* the one in which it reads the empty list.
C26_SharedCitations ==
    CitationsRead
    => lastOp.sources = IF sinceReset.search = None THEN <<>>
                        ELSE Sources(sinceReset.search[1])

\* query q1 has searched and reads the list of q2's search
C26_Witness ==
    /\ CitationsRead
    /\ lastOp.proc = "q1"
    /\ Searched("q1")
    /\ lastOp.sources = Sources(SharedRows(Other("q1")))
    /\ lastOp.sources # Sources(SharedRows("q1"))

\* query q2 has searched and reads the empty list: q1's reset came in between
C26_WitnessEmptied ==
    /\ CitationsRead
    /\ lastOp.proc = "q2"
    /\ Searched("q2")
    /\ pc["q1"] = "idle"
    /\ lastOp.sources = <<>>

\* the tool instances registered in dict
RegisteredTools(dict) == {dict[i].tool : i \in DOMAIN dict}

\* C27: a step of execute_tool leaves the registered tools as they are and
\* changes the citation list of no tool instance but the one it executed;
\* when it executed an outline tool or found no tool of the name, it changes
\* no citation list at all.
C27_ExecuteTouchesOneTool ==
    [][lastOp'.op = "execute_tool"
       => /\ tools' = tools
          /\ \A t \in SearchTools :
                lastOp'.tool # Some(t) => last_sources'[t] = last_sources[t]
          /\ (lastOp'.tool = None \/ lastOp'.tool[1] \in OutlineTools)
             => last_sources' = last_sources]_vars

\* a search through the first tool has written its list while the tool
\* registered as NotesToolName holds another one
C27_Witness ==
    /\ lastOp.op = "execute_tool"
    /\ lastOp.tool = Some("search1")
    /\ {"search1", "search3", "outline1"} \subseteq RegisteredTools(tools)
    /\ last_sources["search1"] # <<>>
    /\ last_sources["search3"] # <<>>
    /\ last_sources["search1"] # last_sources["search3"]

\* the positions of the registry whose tool holds a non-empty citation list
NonEmptyAt(dict, sources) ==
    {i \in DOMAIN dict : HasLastSources(dict[i].tool) /\ sources[dict[i].tool] # <<>>}

\* C28: get_last_sources returns the citation list of the first tool in
\* registration order whose list is not empty, the empty list when there is
\* none, and leaves the registry and every citation list as they are.
C28_FirstNonEmptyList ==
    [][lastOp'.op = "get_last_sources"
       => /\ tools' = tools
          /\ last_sources' = last_sources
          /\ LET at == NonEmptyAt(tools, last_sources)
             IN  lastOp'.sources =
                   IF at = {} THEN <<>>
                   ELSE last_sources[tools[CHOOSE i \in at : \A j \in at : i <= j].tool]
      ]_vars

\* a read with two non-empty lists in the registry, behind an outline tool
C28_Witness ==
    /\ lastOp.op = "get_last_sources"
    /\ Len(tools) = 3
    /\ tools[1].tool \in OutlineTools
    /\ NonEmptyAt(tools, last_sources) = {2, 3}
    /\ last_sources[tools[2].tool] # last_sources[tools[3].tool]
    /\ lastOp.sources = last_sources[tools[2].tool]

\* the last step registered a tool
JustRegistered == lastOp.op = "register_tool" /\ ~lastOp.out.raised

\* C29: get_tool_definitions lists the definitions of the registered tools
\* in the order their names were first registered: registering a new name
\* adds its definition at the end, registering a name again puts the new
\* tool at the position the name has and moves nothing, and no other step
\* changes the list.
C29_DefinitionsInInsertionOrder ==
    [][LET old == GetToolDefinitions(tools)
           new == GetToolDefinitions(tools')
       IN  IF lastOp'.op = "register_tool" /\ ~lastOp'.out.raised
           THEN LET name == DeclaredName(lastOp'.tool)[1]
                IN  IF \E i \in DOMAIN old : old[i] = name
                    THEN /\ new = old
                         /\ \A i \in DOMAIN tools :
                               tools'[i].tool = IF old[i] = name THEN lastOp'.tool
                                                ELSE tools[i].tool
                    ELSE /\ new = Append(old, name)
                         /\ tools'[Len(tools')].tool = lastOp'.tool
           ELSE new = old]_vars

\* the second search tool was registered under the name of the first and
\* stands at the head of three definitions
C29_Witness ==
    /\ JustRegistered
    /\ lastOp.tool = "search2"
    /\ GetToolDefinitions(tools) = <<SearchToolName, OutlineToolName, NotesToolName>>
    /\ tools[1].tool = "search2"

\* generate_response was just called, with the history lastOp.history
Entered == lastOp.op = "generate_response" /\ "history" \in DOMAIN lastOp

\* the system directive for a conversation history
Directive(history) ==
    IF history = None \/ history = Some("") THEN SYSTEM_PROMPT
    ELSE SYSTEM_PROMPT \o "\n\nPrevious conversation:\n" \o history[1]

\* C30: the system directive of the first model call is the fixed
\* instruction text alone when the conversation history is absent or empty,
\* and the fixed text followed by the history otherwise; the second model
\* call of the same query carries the same system directive as the first.
C30_SameSystemDirective ==
    /\ Entered => calls[lastOp.proc][1].system = Directive(lastOp.history)
    /\ \A p \in Procs :
          /\ Len(calls[p]) >= 1
                => calls[p][1].system \in {Directive(h) : h \in Histories}
          /\ Len(calls[p]) >= 2 => calls[p][2].system = calls[p][1].system

\* a query with a history has issued its second call
C30_Witness ==
    /\ Len(calls["q1"]) = 2
    /\ calls["q1"][1].system = Directive(Some("User: hi\nAssistant: hello"))
    /\ calls["q1"][1].system # SYSTEM_PROMPT
    /\ calls["q1"][2].system = calls["q1"][1].system

\* C31: the first model call carries the tool definitions and tool_choice
\* "auto" exactly when a non-empty list of tool definitions was given; with
\* no list or an empty one it carries neither tools nor tool_choice.
C31_ToolsAttachedWhenGiven ==
    Entered
    => LET call == calls[lastOp.proc][1]
       IN  IF lastOp.tools # None /\ Len(lastOp.tools[1]) > 0
           THEN /\ {"tools", "tool_choice"} \subseteq DOMAIN call
                /\ call.tools = lastOp.tools[1]
                /\ call.tool_choice = [type |-> "auto"]
           ELSE {"tools", "tool_choice"} \cap DOMAIN call = {}

\* a call entered with both tool definitions
C31_Witness ==
    /\ Entered
    /\ lastOp.tools = Some(<<SearchToolName, OutlineToolName>>)
    /\ calls[lastOp.proc][1].tools = <<SearchToolName, OutlineToolName>>

\* a call entered with the empty list
C31_WitnessEmptyList ==
    /\ Entered
    /\ lastOp.tools = Some(<<>>)
    /\ "tools" \notin DOMAIN calls[lastOp.proc][1]

\* the index answered with at least one row
HasRows(results) == ~results.raises /\ results.error = None /\ ~IsEmpty(results)

\* the tool executions of call p whose search returned rows
WithRows(p) ==
    {i \in DOMAIN execs[p] :
        execs[p][i].results # None /\ HasRows(execs[p][i].results[1])}

\* C32: of the content searches of one model turn, every one gone through
\* is executed, and once the second model call is issued all of them were
\* executed and the call carries the result of each, in order; but the
\* citations get_last_sources gives are those of the last search of the
\* turn that returned rows, alone: the citations of the earlier searches
\* are gone.
C32_LastSearchCitationsOnly ==
    \A p \in Procs :
        (FirstWasToolUse(p) /\ tool_manager[p])
        => LET uses == ToolUsesOf(response[p][1].content)
           IN  /\ Len(calls[p]) = 2
                  => /\ Len(execs[p]) = Len(uses)
                     /\ uses # <<>>
                        => LET msgs == calls[p][2].messages
                               fed == msgs[Len(msgs)].content
                           IN  /\ Len(fed) = Len(uses)
                               /\ \A i \in DOMAIN uses :
                                     /\ fed[i].tool_use_id = uses[i].id
                                     /\ fed[i].content = execs[p][i].out.value
               /\ WithRows(p) # {}
                  => LET last == CHOOSE i \in WithRows(p) :
                                    \A j \in WithRows(p) : j <= i
                     IN  GetLastSources = Sources(execs[p][last].results[1])

\* a turn of two searches that both returned rows is over: the citations
\* are those of the second search, none of the first
C32_Witness ==
    /\ pc["q1"] = "done"
    /\ Len(execs["q1"]) = 2
    /\ WithRows("q1") = {1, 2}
    /\ GetLastSources = Sources(execs["q1"][2].results[1])
    /\ \A i \in DOMAIN GetLastSources :
          \A j \in DOMAIN Sources(execs["q1"][1].results[1]) :
             GetLastSources[i] # Sources(execs["q1"][1].results[1])[j]

\* a turn whose second search returned no rows: the citations are those of
\* the first search
C32_WitnessNoRows ==
    /\ pc["q1"] = "done"
    /\ Len(execs["q1"]) = 2
    /\ WithRows("q1") = {1}
    /\ execs["q1"][2].results = Some(RowResults(<<>>))
    /\ GetLastSources = Sources(execs["q1"][1].results[1])

\* the arguments kwargs do not match the parameters of the tool: a required
\* one is missing or one is there that the tool does not have
Mismatch(tool, kwargs) ==
    IF tool \in OutlineTools
    THEN "course_title" \notin DOMAIN kwargs
         \/ DOMAIN kwargs \ {"course_title"} # {}
    ELSE "query" \notin DOMAIN kwargs
         \/ DOMAIN kwargs \ {"query", "course_name", "lesson_number"} # {}

\* C33: a tool_use block that names a registered tool with arguments that
\* do not match the tool's parameters makes execute_tool raise TypeError:
\* the fault is what generate_response raises, the index is not asked, no
\* result is recorded for the block, the blocks after it are not executed
\* and the second model call is not issued.
C33_ArgumentMismatchRaises ==
    \A p \in Procs : \A i \in DOMAIN execs[p] :
        (execs[p][i].tool # None /\ Mismatch(execs[p][i].tool[1], execs[p][i].kwargs))
        => /\ execs[p][i].out = Raise("TypeError")
           /\ execs[p][i].searches = <<>>
           /\ execs[p][i].catalog = None
           /\ pc[p] = "raised"
           /\ result[p] = Some(Raise("TypeError"))
           /\ i = Len(execs[p])
           /\ Len(tool_results[p]) = i - 1
           /\ Len(calls[p]) = 1

\* the first of two blocks gave the search an argument it does not have:
\* the call has raised and the second block was not executed
C33_Witness ==
    /\ pc["q1"] = "raised"
    /\ Len(response["q1"][1].content) = 2
    /\ Len(execs["q1"]) = 1
    /\ execs["q1"][1].tool = Some("search1")
    /\ "topic" \in DOMAIN execs["q1"][1].kwargs
    /\ result["q1"] = Some(Raise("TypeError"))

\* the row has a course title and no lesson number
CourseRow(row) ==
    "course_title" \in DOMAIN row.meta /\ "lesson_number" \notin DOMAIN row.meta

\* the row has a lesson number for which the index has no link
UnlinkedLesson(meta) ==
    /\ "lesson_number" \in DOMAIN meta
    /\ StoreLessonLink(IF "course_title" \in DOMAIN meta
                       THEN meta.course_title ELSE "unknown",
                       meta.lesson_number) = None

\* the get_course_link calls among the calls made to the index
CourseLookups(looked) == SelectSeq(looked, LAMBDA l : l.call = "get_course_link")

\* C34: after a search with rows, the citation of a row that has a lesson
\* number for which the index has no link carries no link, the course's
\* link is not put in its place; and the index is asked for a course's link
\* once for each row that has a course title and no lesson number, in row
\* order, and for no other row.
C34_NoCourseLinkFallback ==
    SearchReturnedRows
    => LET r == lastOp.results[1]
           rows == Zip(r.documents, r.metadata)
           cited == last_sources[lastOp.tool[1]]
           courseRows == SelectSeq(rows, CourseRow)
           asked == CourseLookups(lastOp.lookups)
       IN  /\ \A i \in DOMAIN rows :
                 UnlinkedLesson(rows[i].meta) => cited[i].link = None
           /\ Len(asked) = Len(courseRows)
           /\ \A k \in DOMAIN asked :
                 asked[k].course_title = courseRows[k].meta.course_title

\* a search returned a row of lesson 2, which has no link while its course
\* has one, and a row of the course: the index was asked once for the
\* course's link, and the first citation has no link
C34_Witness ==
    /\ SearchReturnedRows
    /\ lastOp.results[1].metadata
          = << [course_title |-> "MCP", lesson_number |-> 2], [course_title |-> "MCP"] >>
    /\ StoreCourseLink("MCP") # None
    /\ last_sources["search1"][1].link = None
    /\ last_sources["search1"][2].link = StoreCourseLink("MCP")
    /\ Len(CourseLookups(lastOp.lookups)) = 1
    /\ Len(lastOp.lookups) = 2

\* the blocks i..n whose headers are the texts of the citations cited in
\* square brackets, over the chunk texts documents, joined by blank lines
RECURSIVE CitedBlocks(_, _, _, _)
CitedBlocks(cited, documents, i, n) ==
    IF i > n THEN ""
    ELSE "[" \o cited[i].text \o "]" \o "\n" \o documents[i]
             \o (IF i < n THEN "\n\n" ELSE "")
             \o CitedBlocks(cited, documents, i + 1, n)

\* C35: after every search that returns rows there are as many citations as
\* formatted blocks, the shorter of the documents and metadata lists, and
\* the header of the i-th block is the text of the i-th citation in square
\* brackets.
C35_CitationTextIsHeader ==
    SearchReturnedRows
    => LET r == lastOp.results[1]
           cited == last_sources[lastOp.tool[1]]
           n == IF Len(r.documents) <= Len(r.metadata)
                THEN Len(r.documents) ELSE Len(r.metadata)
       IN  /\ Len(cited) = n
           /\ lastOp.out = Return(CitedBlocks(cited, r.documents, 1, n))

\* a search returned a row of lesson 1 and a row without course title
C35_Witness ==
    /\ SearchReturnedRows
    /\ Len(last_sources["search1"]) = 2
    /\ last_sources["search1"][1].text = "MCP - Lesson 1"
    /\ last_sources["search1"][2].text = "unknown"
    /\ lastOp.out = Return("[MCP - Lesson 1]\nchunk1\n\n[unknown]\nchunk2")

====
